---- MODULE Spec2Model ----
(***************************************************************************)
(* A model of the offline update core of aktualizr-lite:                   *)
(*   src/src/docker/docker.cc   Docker::RegistryClient, DownloadCtx,       *)
(*                              BearerAuth, HashedDigest                   *)
(*   src/src/offline/client.cc  OfflineRegistry, getTarget, registerApps,  *)
(*                              install, run                               *)
(* Three specifications share the module's variables:                      *)
(*   Spec         one call of RegistryClient::downloadBlob or              *)
(*                RegistryClient::getAppManifest against a transport       *)
(*   SpecTarget   one call of offline::client::getTarget                   *)
(*   SpecInstall  one call of offline::client::install                     *)
(***************************************************************************)
EXTENDS Integers, Sequences, FiniteSets, TLC

\* ------------------------------------------------------------------ bounds
\* Longest body a transport streams or returns.
MaxBody == 3
\* Largest expected_size / manifest_size a caller passes.
MaxSize == 2

\* ---------------------------------------------------------------- helpers
Byte == {0, 1}

RECURSIVE SeqsUpTo(_, _)
SeqsUpTo(S, n) ==
  IF n = 0 THEN {<<>>}
  ELSE LET shorter == SeqsUpTo(S, n - 1)
       IN  shorter \cup {Append(s, x) : s \in {t \in shorter : Len(t) = n - 1}, x \in S}

Bodies == SeqsUpTo(Byte, MaxBody)

\* std::size_t arithmetic is modular; the width is scaled down from 64 bits.
SizeModulus == 256
ToSize(i) == i % SizeModulus

\* The rolling hasher (MultiPartSHA256Hasher): update() folds one byte into
\* the state, reset() returns to HashInit.  The fold is positional, so it
\* tells apart every two byte sequences the model can produce.
HashInit == 1
HashModulus == 100003
HashBase == Cardinality(Byte) + 1

RECURSIVE HashUpdate(_, _)
HashUpdate(h, data) ==
  IF data = <<>> THEN h
  ELSE HashUpdate((h * HashBase + Head(data) + 1) % HashModulus, Tail(data))

\* Crypto::sha256digest of a whole buffer, rendered as lowercase hex.
sha256digest(data) == HashUpdate(HashInit, data)

\* --------------------------------------------------------- strings as chars
\* Header values are parsed character by character, so they are sequences
\* of one-character strings; positions are 0-based as in std::string.
NPOS == -1

At(s, i) == s[i + 1]

\* s.substr(pos, n)
Substr(s, pos, n) ==
  LET last == IF pos + n > Len(s) THEN Len(s) ELSE pos + n
  IN  IF pos >= Len(s) THEN <<>> ELSE SubSeq(s, pos + 1, last)

\* s.substr(pos)
SubstrFrom(s, pos) == Substr(s, pos, Len(s))

\* s.find(c, from) for a single character
RECURSIVE FindChar(_, _, _)
FindChar(s, c, from) ==
  IF from = NPOS \/ from >= Len(s) THEN NPOS
  ELSE IF At(s, from) = c THEN from
  ELSE FindChar(s, c, from + 1)

\* boost::starts_with(s, prefix): case-sensitive
StartsWith(s, prefix) ==
  /\ Len(s) >= Len(prefix)
  /\ SubSeq(s, 1, Len(prefix)) = prefix

\* s.rfind(needle)
RECURSIVE RFindFrom(_, _, _)
RFindFrom(s, needle, from) ==
  IF from < 0 THEN NPOS
  ELSE IF Substr(s, from, Len(needle)) = needle THEN from
  ELSE RFindFrom(s, needle, from - 1)

RFind(s, needle) == RFindFrom(s, needle, Len(s) - Len(needle))

\* boost::trim
RECURSIVE TrimLeft(_)
TrimLeft(s) == IF s # <<>> /\ Head(s) = " " THEN TrimLeft(Tail(s)) ELSE s

RECURSIVE TrimRight(_)
TrimRight(s) ==
  IF s # <<>> /\ s[Len(s)] = " " THEN TrimRight(SubSeq(s, 1, Len(s) - 1)) ELSE s

Trim(s) == TrimRight(TrimLeft(s))

\* The std::string a character sequence stands for.
RECURSIVE Str(_)
Str(s) == IF s = <<>> THEN "" ELSE Head(s) \o Str(Tail(s))

\* ------------------------------------------------------------- BearerAuth
AuthType == <<"b", "e", "a", "r", "e", "r">>

\* One pass of the parameter loop of BearerAuth::BearerAuth.  `params` maps
\* the names parsed so far to their values; the result carries the final map, or
\* ok = FALSE where the constructor throws std::invalid_argument.
BadParams == [ok |-> FALSE, map |-> <<>>]

RECURSIVE BearerParams(_, _, _)
BearerParams(val, begin, params) ==
  LET eq == FindChar(val, "=", begin)
  IN  IF eq = NPOS THEN [ok |-> TRUE, map |-> params]
      ELSE
        LET q1 == FindChar(val, "\"", begin)
        IN  IF q1 = NPOS THEN BadParams
            ELSE IF eq > q1 THEN BadParams
            ELSE IF \E i \in (eq + 1)..(q1 - 1) : At(val, i) # " " THEN BadParams
            ELSE
              LET q2 == FindChar(val, "\"", q1 + 1)
              IN  IF q2 = NPOS THEN BadParams
                  ELSE
                    LET name   == Trim(Substr(val, begin, eq - begin))
                        value  == Trim(Substr(val, q1 + 1, q2 - q1 - 1))
                        comma  == FindChar(val, ",", q2)
                        next   == IF comma # NPOS THEN comma + 1 ELSE NPOS
                    IN  BearerParams(val, next, (name :> value) @@ params)

RequiredParams == << <<"r", "e", "a", "l", "m">>,
                     <<"s", "e", "r", "v", "i", "c", "e">>,
                     <<"s", "c", "o", "p", "e">> >>

\* RegistryClient::BearerAuth::BearerAuth(auth_header_value)
BearerAuth(auth_header_value) ==
  IF ~StartsWith(auth_header_value, AuthType) THEN [ok |-> FALSE]
  ELSE
    LET bearer_val == Trim(SubstrFrom(auth_header_value,
                                      RFind(auth_header_value, AuthType) + Len(AuthType)))
        parsed == BearerParams(bearer_val, 0, <<>>)
        params == parsed.map
    IN  IF ~parsed.ok THEN [ok |-> FALSE]
        ELSE IF \E i \in 1..3 : RequiredParams[i] \notin DOMAIN params THEN [ok |-> FALSE]
        ELSE [ok |-> TRUE,
              Realm   |-> Str(params[RequiredParams[1]]),
              Service |-> Str(params[RequiredParams[2]]),
              Scope   |-> Str(params[RequiredParams[3]])]

\* BearerAuth::uri(): the token endpoint's URL
BearerUri(bearer) ==
  bearer.Realm \o "?service=" \o bearer.Service \o "&scope=" \o bearer.Scope

\* The values of the www-authenticate header the registry may send.
\* Bearer realm="https://x/t",service="s",scope="repository:r:pull"
HdrBearerUpper ==
  <<"B", "e", "a", "r", "e", "r", " ",
    "r", "e", "a", "l", "m", "=", "\"", "h", "t", "t", "p", "s", ":", "/", "/", "x", "/", "t", "\"", ",",
    "s", "e", "r", "v", "i", "c", "e", "=", "\"", "s", "\"", ",",
    "s", "c", "o", "p", "e", "=", "\"", "r", "e", "p", "o", "s", "i", "t", "o", "r", "y", ":", "r", ":",
    "p", "u", "l", "l", "\"">>

\* bearer realm="https://x/t",service="s",scope="repository:r:pull"
HdrBearerLower == <<"b">> \o Tail(HdrBearerUpper)

\* bearer realm = "https://x/t" , service="s"      (no scope)
HdrNoScope ==
  <<"b", "e", "a", "r", "e", "r", " ",
    "r", "e", "a", "l", "m", " ", "=", " ", "\"", "h", "t", "t", "p", "s", ":", "/", "/", "x", "/", "t", "\"", " ", ",",
    "s", "e", "r", "v", "i", "c", "e", "=", "\"", "s", "\"">>

\* basic realm="x"
HdrBasic == <<"b", "a", "s", "i", "c", " ", "r", "e", "a", "l", "m", "=", "\"", "x", "\"">>

\* No www-authenticate header in the response.
NoHeader == <<>>
AuthHeaderValues == {HdrBearerUpper, HdrBearerLower, HdrNoScope, HdrBasic}

\* ------------------------------------------------------------------ state
VARIABLES
  \* --- one call of RegistryClient::downloadBlob / getAppManifest
  op,               \* "blob", "manifest", or "none" outside Spec
  pc,               \* the call's position
  transport,        \* "online" (HTTP client) or "offline" (OfflineRegistry)
  digest,           \* uri.digest.hash()
  expected_size,    \* expected_size / *manifest_size, NoSize when not supplied
  file,             \* the file at filepath: [exists, data]
  out_stream,       \* output_file: [open, good, pos]
  hasher,           \* the MultiPartSHA256Hasher's state
  written_size,     \* DownloadCtx::written_size
  received_size,    \* DownloadCtx::received_size
  request_headers,  \* registry_repo_request_headers
  attempt,          \* registry requests issued so far in this call
  resp,             \* the HttpResponse in hand: [status, curl_ok, header, body],
                    \* and the length of the body the transport set out to send
  body_left,        \* bytes the transport has still to stream
  last_write,       \* the write callback's last call: [n, ret, crossing]
  bearer,           \* the BearerAuth parsed from the 401 response
  basic_header,     \* what getBasicAuthHeader returned
  requests,         \* every request issued, in order, each with its reply
  result,           \* "none" while running, "ok", or the failure raised
  returned,         \* the body getAppManifest returned
  checks,           \* [size, digest, reset]: how often each ran in this call
  \* --- one call of getTarget
  sel,              \* the selector's inputs and its result
  \* --- one call of install
  inst,             \* the driver's position, inputs, trace and outcome
  \* --- one call of run
  runc,             \* the driver's position, trace and outcome
  \* --- calls of registerApps on one apps store
  reg,              \* position, inputs, the index file and the file being written
  \* --- one request to OfflineRegistry
  oreg,             \* the url and the path of the file opened
  \* --- one construction of HashedDigest
  hdig              \* the input and the object or the failure

rvars == <<op, pc, transport, digest, expected_size, file, out_stream, hasher,
           written_size, received_size, request_headers, attempt, resp, body_left,
           last_write, bearer, basic_header, requests, result, returned, checks>>
xvars == <<runc, reg, oreg, hdig>>
vars == <<rvars, sel, inst, xvars>>

NoSize == -1
Statuses == {200, 401, 404}
NoResp == [status |-> 0, curl_ok |-> TRUE, header |-> NoHeader, body |-> <<>>, length |-> 0]
NoBody == [given |-> FALSE, body |-> <<>>]
NoWrite == [n |-> 0, ret |-> 0, crossing |-> FALSE]
NoBearer == [ok |-> FALSE]

\* HttpResponse::isOk(): the transfer completed and the status is 2xx.
isOk(r) == r.curl_ok /\ r.status \in 200..299

\* Utils::toBase64 on the credentials the daemon can return.
toBase64(str) ==
  CASE str = "test-user:secret" -> "dGVzdC11c2VyOnNlY3JldA=="
    [] OTHER -> "base64(" \o str \o ")"

\* Idle values of the registry client's variables, for the other specifications.
RegistryIdle ==
  /\ op = "none" /\ pc = "idle" /\ transport = "offline" /\ digest = 0
  /\ expected_size = 0
  /\ file = [exists |-> FALSE, data |-> <<>>]
  /\ out_stream = [open |-> FALSE, good |-> TRUE, pos |-> 0]
  /\ hasher = HashInit /\ written_size = 0 /\ received_size = 0
  /\ request_headers = <<>> /\ attempt = 0 /\ resp = NoResp /\ body_left = <<>>
  /\ last_write = NoWrite /\ bearer = NoBearer /\ basic_header = ""
  /\ requests = <<>> /\ result = "none" /\ returned = NoBody
  /\ checks = [size |-> 0, digest |-> 0, reset |-> 0]

SelIdle == sel = [pc |-> "idle"]
InstIdle == inst = [pc |-> "idle"]
RunIdle == runc = [pc |-> "idle"]
RegIdle == reg = [pc |-> "idle"]
OffIdle == oreg = [pc |-> "idle"]
DigestIdle == hdig = [pc |-> "idle"]

\* The state at entry of downloadBlob(uri, filepath, expected_size) or of
\* getAppManifest(uri, format, manifest_size): any pinned digest, any size.
Init ==
  /\ op \in {"blob", "manifest"}
  /\ transport \in {"online", "offline"}
  /\ digest \in {sha256digest(b) : b \in SeqsUpTo(Byte, MaxSize)}
  /\ expected_size \in IF op = "blob" THEN 0..MaxSize ELSE {NoSize} \cup 0..MaxSize
  /\ pc = IF op = "blob" THEN "open" ELSE "request"
  /\ file = [exists |-> FALSE, data |-> <<>>]
  /\ out_stream = [open |-> FALSE, good |-> TRUE, pos |-> 0]
  /\ hasher = HashInit /\ written_size = 0 /\ received_size = 0
  /\ request_headers = IF op = "blob" THEN <<>> ELSE <<"accept:format">>
  /\ attempt = 0 /\ resp = NoResp /\ body_left = <<>>
  /\ last_write = NoWrite /\ bearer = NoBearer /\ basic_header = ""
  /\ requests = <<>> /\ result = "none" /\ returned = NoBody
  /\ checks = [size |-> 0, digest |-> 0, reset |-> 0]
  /\ SelIdle /\ InstIdle /\ RunIdle /\ RegIdle /\ OffIdle /\ DigestIdle

\* A failure leaves the function: the stack unwinds, and ~ofstream closes
\* output_file.  Nothing on the way removes the file at filepath.
Throw(failure) ==
  /\ result' = failure
  /\ pc' = "done"
  /\ out_stream' = [out_stream EXCEPT !.open = FALSE]

\* std::remove(filepath.c_str())
Removed == [exists |-> FALSE, data |-> <<>>]

\* ------------------------------------------------------------ DownloadCtx
\* data written into the file at position pos
Overwrite(data, pos, bytes) ==
  SubSeq(data, 1, pos) \o bytes \o SubSeq(data, pos + Len(bytes) + 1, Len(data))

\* DownloadCtx::write(data, size) on a chunk.  `stored` is how many of the
\* chunk's bytes the stream stores: all of them, or fewer when the stream
\* fails in the write (it then turns bad and tellp() answers -1).
\* The result is the callback's return value and the fields it leaves.
DownloadCtxWrite(chunk, stored) ==
  LET size      == Len(chunk)
      received  == ToSize(written_size + size)
      same      == [ret |-> ToSize(size + 1), received |-> received,
                    written |-> written_size, stream |-> out_stream,
                    data |-> file.data, hash |-> hasher]
  IN  IF received > expected_size THEN same
      ELSE IF ~out_stream.good THEN same
      ELSE
        LET start_pos == out_stream.pos
            failed    == stored < size
            end_pos   == IF failed THEN -1 ELSE start_pos + size
        IN  [ret      |-> ToSize(end_pos - start_pos),
             received |-> received,
             written  |-> ToSize(written_size + (end_pos - start_pos)),
             stream   |-> [out_stream EXCEPT !.good = ~failed,
                                             !.pos = start_pos + stored],
             data     |-> Overwrite(file.data, start_pos, SubSeq(chunk, 1, stored)),
             hash     |-> HashUpdate(hasher, chunk)]

\* DownloadCtx::reset(): seekp() moves only a stream that has not failed.
DownloadCtxReset ==
  /\ out_stream' = IF out_stream.good THEN [out_stream EXCEPT !.pos = 0] ELSE out_stream
  /\ hasher' = HashInit
  /\ written_size' = 0
  /\ received_size' = 0

\* ----------------------------------------------------------- downloadBlob
\* std::ofstream output_file{filepath, out | binary}: creates or truncates
\* the file; the call throws when it cannot be opened.
OpenFile ==
  /\ op = "blob" /\ pc = "open"
  /\ \/ /\ file' = [exists |-> TRUE, data |-> <<>>]
        /\ out_stream' = [open |-> TRUE, good |-> TRUE, pos |-> 0]
        /\ pc' = "request"
        /\ UNCHANGED result
     \/ /\ Throw("open_failed")
        /\ UNCHANGED file
  /\ UNCHANGED <<op, transport, digest, expected_size, hasher, written_size,
                 received_size, request_headers, attempt, resp, body_left,
                 last_write, bearer, basic_header, requests, returned, checks,
                 sel, inst, xvars>>

\* The response a transport starts to give to a registry request.  The
\* online registry answers any status; OfflineRegistry answers 200 with the
\* blob file's bytes, whatever they are.
Responses ==
  IF transport = "offline"
  THEN {[status |-> 200, curl_ok |-> TRUE, header |-> NoHeader, body |-> b,
         length |-> Len(b)] : b \in Bodies}
  ELSE UNION {
         {[status |-> st, curl_ok |-> TRUE, header |-> h, body |-> b, length |-> Len(b)] :
            h \in IF st = 401 THEN {NoHeader} \cup AuthHeaderValues ELSE {NoHeader},
            b \in Bodies} : st \in Statuses}

\* A registry request as logged: the headers it carries and the reply's
\* status and www-authenticate header.
RegistryRequest(r) ==
  [to |-> "registry", url |-> "registry", headers |-> request_headers,
   reply |-> [status |-> r.status, header |-> r.header]]

\* doDownloadBlobRequest(): download() starts; the body is then streamed
\* into DownloadHandler chunk by chunk.
StartDownload ==
  /\ op = "blob" /\ pc = "request"
  /\ attempt' = attempt + 1
  /\ \E r \in Responses :
       /\ requests' = Append(requests, RegistryRequest(r))
       /\ resp' = [r EXCEPT !.body = <<>>]
       /\ body_left' = r.body
  /\ last_write' = NoWrite
  /\ pc' = "transfer"
  /\ UNCHANGED <<op, transport, digest, expected_size, file, out_stream, hasher,
                 written_size, received_size, request_headers, bearer,
                 basic_header, result, returned, checks, sel, inst, xvars>>

\* The transport hands the next chunk to DownloadHandler.  The online
\* transport aborts the transfer when the callback does not return the
\* chunk's length; OfflineRegistry::download() drops the return value and
\* goes on.
Deliver ==
  /\ op = "blob" /\ pc = "transfer" /\ body_left # <<>>
  /\ \E n \in 1..Len(body_left), stored \in 0..Len(body_left) :
       /\ stored <= n
       /\ LET chunk == SubSeq(body_left, 1, n)
              w     == DownloadCtxWrite(chunk, stored)
              abort == transport = "online" /\ w.ret # n
          IN  /\ received_size' = w.received
              /\ written_size' = w.written
              /\ out_stream' = w.stream
              /\ file' = [file EXCEPT !.data = w.data]
              /\ hasher' = w.hash
              /\ last_write' = [n |-> n, ret |-> w.ret,
                                crossing |-> written_size + n > expected_size]
              /\ body_left' = IF abort THEN <<>> ELSE SubSeq(body_left, n + 1, Len(body_left))
              /\ resp' = IF abort THEN [resp EXCEPT !.curl_ok = FALSE] ELSE resp
              /\ pc' = IF abort THEN "response" ELSE "transfer"
  /\ UNCHANGED <<op, transport, digest, expected_size, request_headers, attempt,
                 bearer, basic_header, requests, result, returned, checks, sel, inst, xvars>>

\* The online transfer breaks off by itself (connection lost, timeout).
TransportAbort ==
  /\ op = "blob" /\ pc = "transfer" /\ transport = "online"
  /\ resp' = [resp EXCEPT !.curl_ok = FALSE]
  /\ body_left' = <<>>
  /\ pc' = "response"
  /\ UNCHANGED <<op, transport, digest, expected_size, file, out_stream, hasher,
                 written_size, received_size, request_headers, attempt, last_write,
                 bearer, basic_header, requests, result, returned, checks, sel, inst, xvars>>

\* The whole body was streamed: download() returns its HttpResponse.
EndTransfer ==
  /\ op = "blob" /\ pc = "transfer" /\ body_left = <<>>
  /\ pc' = "response"
  /\ UNCHANGED <<op, transport, digest, expected_size, file, out_stream, hasher,
                 written_size, received_size, request_headers, attempt, resp,
                 body_left, last_write, bearer, basic_header, requests, result,
                 returned, checks, sel, inst, xvars>>

\* BlobOn401 with the 401 test repeated after the second request too.
BlobOn401EveryTime ==
  /\ op = "blob" /\ pc = "response"
  /\ IF resp.status = 401
     THEN IF resp.header = NoHeader
          THEN Throw("no_auth_header")
          ELSE pc' = "auth_parse" /\ UNCHANGED <<result, out_stream>>
     ELSE pc' = "check_ok" /\ UNCHANGED <<result, out_stream>>
  /\ UNCHANGED <<op, transport, digest, expected_size, file, hasher, written_size,
                 received_size, request_headers, attempt, resp, body_left,
                 last_write, bearer, basic_header, requests, returned, checks,
                 sel, inst, xvars>>

\* downloadBlob, after a request returned: a 401 to the first request leads
\* into the auth flow (or throws when the header is missing), anything else
\* goes on to the isOk() test.
BlobOn401 ==
  /\ op = "blob" /\ pc = "response"
  /\ IF attempt = 1 /\ resp.status = 401
     THEN IF resp.header = NoHeader
          THEN Throw("no_auth_header")
          ELSE pc' = "auth_parse" /\ UNCHANGED <<result, out_stream>>
     ELSE pc' = "check_ok" /\ UNCHANGED <<result, out_stream>>
  /\ UNCHANGED <<op, transport, digest, expected_size, file, hasher, written_size,
                 received_size, request_headers, attempt, resp, body_left,
                 last_write, bearer, basic_header, requests, returned, checks,
                 sel, inst, xvars>>

\* -------------------------------------------------------------- auth flow
\* BearerAuth(resp.headers["www-authenticate"]): the argument of
\* getBearerAuthHeader, evaluated first; it throws on a malformed challenge.
ParseChallenge ==
  /\ pc = "auth_parse"
  /\ LET b == BearerAuth(resp.header)
     IN  IF b.ok
         THEN bearer' = b /\ pc' = "auth_creds" /\ UNCHANGED <<result, out_stream>>
         ELSE Throw("bad_challenge") /\ UNCHANGED bearer
  /\ UNCHANGED <<op, transport, digest, expected_size, file, hasher, written_size,
                 received_size, request_headers, attempt, resp, body_left,
                 last_write, basic_header, requests, returned, checks, sel, inst, xvars>>

\* What the credentials endpoint may answer.
CredsResponses ==
  {[ok |-> TRUE,  Username |-> "test-user", Secret |-> "secret"],
   [ok |-> TRUE,  Username |-> "",          Secret |-> "secret"],
   [ok |-> TRUE,  Username |-> "test-user", Secret |-> ""],
   [ok |-> FALSE, Username |-> "",          Secret |-> ""]}

\* getBasicAuthHeader without the test for an empty Username or Secret.
getBasicAuthHeaderAnyCreds ==
  /\ pc = "auth_creds"
  /\ \E creds_resp \in CredsResponses :
       /\ requests' = Append(requests, [to |-> "creds", url |-> "auth_creds_endpoint",
                                        headers |-> <<>>, reply |-> creds_resp])
       /\ IF ~creds_resp.ok THEN Throw("creds_failed") /\ UNCHANGED basic_header
          ELSE /\ basic_header' = "authorization: basic "
                                    \o toBase64(creds_resp.Username \o ":" \o creds_resp.Secret)
               /\ pc' = "auth_token"
               /\ UNCHANGED <<result, out_stream>>
  /\ UNCHANGED <<op, transport, digest, expected_size, file, hasher, written_size,
                 received_size, request_headers, attempt, resp, body_left,
                 last_write, bearer, returned, checks, sel, inst, xvars>>

\* RegistryClient::getBasicAuthHeader()
getBasicAuthHeader ==
  /\ pc = "auth_creds"
  /\ \E creds_resp \in CredsResponses :
       /\ requests' = Append(requests, [to |-> "creds", url |-> "auth_creds_endpoint",
                                        headers |-> <<>>, reply |-> creds_resp])
       /\ IF ~creds_resp.ok THEN Throw("creds_failed") /\ UNCHANGED basic_header
          ELSE IF creds_resp.Username = "" \/ creds_resp.Secret = ""
               THEN Throw("creds_invalid") /\ UNCHANGED basic_header
          ELSE /\ basic_header' = "authorization: basic "
                                    \o toBase64(creds_resp.Username \o ":" \o creds_resp.Secret)
               /\ pc' = "auth_token"
               /\ UNCHANGED <<result, out_stream>>
  /\ UNCHANGED <<op, transport, digest, expected_size, file, hasher, written_size,
                 received_size, request_headers, attempt, resp, body_left,
                 last_write, bearer, returned, checks, sel, inst, xvars>>

\* What the token endpoint may answer: a status and the JSON's "token".
TokenResponses ==
  {[ok |-> TRUE, token |-> "T"], [ok |-> TRUE, token |-> ""], [ok |-> FALSE, token |-> ""]}

\* RegistryClient::getBearerAuthHeader(bearer), after getBasicAuthHeader():
\* GET bearer.uri() with the basic header; then, back in the caller, the
\* returned header is pushed onto registry_repo_request_headers.
getBearerAuthHeader ==
  /\ pc = "auth_token"
  /\ \E token_resp \in TokenResponses :
       /\ requests' = Append(requests, [to |-> "token", url |-> BearerUri(bearer),
                                        headers |-> <<basic_header>>, reply |-> token_resp])
       /\ IF ~token_resp.ok THEN Throw("token_failed") /\ UNCHANGED request_headers
          ELSE IF token_resp.token = ""
               THEN Throw("token_invalid") /\ UNCHANGED request_headers
          ELSE /\ request_headers' =
                    Append(request_headers, "authorization: bearer " \o token_resp.token)
               /\ pc' = IF op = "blob" THEN "reset" ELSE "request"
               /\ UNCHANGED <<result, out_stream>>
  /\ UNCHANGED <<op, transport, digest, expected_size, file, hasher, written_size,
                 received_size, attempt, resp, body_left, last_write, bearer,
                 basic_header, returned, checks, sel, inst, xvars>>

\* downloadBlob: download_ctx.reset() before the request is repeated.
BlobReset ==
  /\ op = "blob" /\ pc = "reset"
  /\ DownloadCtxReset
  /\ checks' = [checks EXCEPT !.reset = @ + 1]
  /\ pc' = "request"
  /\ UNCHANGED <<op, transport, digest, expected_size, file, request_headers,
                 attempt, resp, body_left, last_write, bearer, basic_header,
                 requests, result, returned, sel, inst, xvars>>

\* downloadBlob: if (!get_blob_resp.isOk()) throw
BlobCheckOk ==
  /\ op = "blob" /\ pc = "check_ok"
  /\ IF ~isOk(resp)
     THEN Throw("transport_failed")
     ELSE pc' = "verify_size" /\ UNCHANGED <<result, out_stream>>
  /\ UNCHANGED <<op, transport, digest, expected_size, file, hasher, written_size,
                 received_size, request_headers, attempt, resp, body_left,
                 last_write, bearer, basic_header, requests, returned, checks,
                 sel, inst, xvars>>

\* BlobCheckSize without the std::remove on a mismatch.
BlobCheckSizeKeepsFile ==
  /\ op = "blob" /\ pc = "verify_size"
  /\ out_stream' = [out_stream EXCEPT !.open = FALSE]
  /\ checks' = [checks EXCEPT !.size = @ + 1]
  /\ IF written_size # expected_size
     THEN result' = "size_mismatch" /\ pc' = "done"
     ELSE pc' = "verify_digest" /\ UNCHANGED result
  /\ UNCHANGED <<op, transport, digest, expected_size, file, hasher, written_size,
                 received_size, request_headers, attempt, resp, body_left,
                 last_write, bearer, basic_header, requests, returned, sel, inst, xvars>>

\* downloadBlob: output_file.close(), then the size check; a mismatch
\* removes the file and throws.
BlobCheckSize ==
  /\ op = "blob" /\ pc = "verify_size"
  /\ out_stream' = [out_stream EXCEPT !.open = FALSE]
  /\ checks' = [checks EXCEPT !.size = @ + 1]
  /\ IF written_size # expected_size
     THEN file' = Removed /\ result' = "size_mismatch" /\ pc' = "done"
     ELSE pc' = "verify_digest" /\ UNCHANGED <<file, result>>
  /\ UNCHANGED <<op, transport, digest, expected_size, hasher, written_size,
                 received_size, request_headers, attempt, resp, body_left,
                 last_write, bearer, basic_header, requests, returned, sel, inst, xvars>>

\* downloadBlob: the digest check; a mismatch removes the file and throws,
\* a match ends the call normally.
BlobCheckDigest ==
  /\ op = "blob" /\ pc = "verify_digest"
  /\ checks' = [checks EXCEPT !.digest = @ + 1]
  /\ IF hasher # digest
     THEN file' = Removed /\ result' = "digest_mismatch"
     ELSE result' = "ok" /\ UNCHANGED file
  /\ pc' = "done"
  /\ UNCHANGED <<op, transport, digest, expected_size, out_stream, hasher,
                 written_size, received_size, request_headers, attempt, resp,
                 body_left, last_write, bearer, basic_header, requests, returned,
                 sel, inst, xvars>>

\* --------------------------------------------------------- getAppManifest
\* doGetManifestRequest(): get(manifest_url, manifest_max_size) returns the
\* whole response at once.  The transfer may fail in the transport.
ManifestRequest ==
  /\ op = "manifest" /\ pc = "request"
  /\ attempt' = attempt + 1
  /\ \E r \in Responses, done \in BOOLEAN :
       /\ done \/ transport = "online"
       /\ requests' = Append(requests, RegistryRequest(r))
       /\ resp' = [r EXCEPT !.curl_ok = done]
  /\ pc' = "response"
  /\ UNCHANGED <<op, transport, digest, expected_size, file, out_stream, hasher,
                 written_size, received_size, request_headers, body_left,
                 last_write, bearer, basic_header, result, returned, checks,
                 sel, inst, xvars>>

\* getAppManifest, after a request returned (as in downloadBlob).
ManifestOn401 ==
  /\ op = "manifest" /\ pc = "response"
  /\ IF attempt = 1 /\ resp.status = 401
     THEN IF resp.header = NoHeader
          THEN Throw("no_auth_header")
          ELSE pc' = "auth_parse" /\ UNCHANGED <<result, out_stream>>
     ELSE pc' = "check_ok" /\ UNCHANGED <<result, out_stream>>
  /\ UNCHANGED <<op, transport, digest, expected_size, file, hasher, written_size,
                 received_size, request_headers, attempt, resp, body_left,
                 last_write, bearer, basic_header, requests, returned, checks,
                 sel, inst, xvars>>

\* The cap on a manifest whose size the caller does not give, scaled to the
\* bodies of the model.
DefManifestMaxSize == MaxBody - 1

\* ManifestVerify without the comparison of the body's hash with the digest.
ManifestVerifyNoHash ==
  /\ op = "manifest" /\ pc = "check_ok"
  /\ LET size == Len(resp.body)
     IN  IF ~isOk(resp) THEN Throw("transport_failed") /\ UNCHANGED <<returned, checks>>
         ELSE IF expected_size # NoSize /\ size # expected_size
              THEN /\ Throw("size_mismatch") /\ UNCHANGED returned
                   /\ checks' = [checks EXCEPT !.size = @ + 1]
         ELSE IF expected_size = NoSize /\ size > DefManifestMaxSize
              THEN /\ Throw("size_exceeded") /\ UNCHANGED returned
                   /\ checks' = [checks EXCEPT !.size = @ + 1]
         ELSE /\ returned' = [given |-> TRUE, body |-> resp.body]
              /\ result' = "ok" /\ pc' = "done"
              /\ checks' = [checks EXCEPT !.size = @ + 1]
              /\ UNCHANGED out_stream
  /\ UNCHANGED <<op, transport, digest, expected_size, file, hasher, written_size,
                 received_size, request_headers, attempt, resp, body_left,
                 last_write, bearer, basic_header, requests, sel, inst, xvars>>

\* getAppManifest from the isOk() test to the return: status, size, hash.
ManifestVerify ==
  /\ op = "manifest" /\ pc = "check_ok"
  /\ LET size == Len(resp.body)
     IN  IF ~isOk(resp) THEN Throw("transport_failed") /\ UNCHANGED <<returned, checks>>
         ELSE IF expected_size # NoSize /\ size # expected_size
              THEN /\ Throw("size_mismatch") /\ UNCHANGED returned
                   /\ checks' = [checks EXCEPT !.size = @ + 1]
         ELSE IF expected_size = NoSize /\ size > DefManifestMaxSize
              THEN /\ Throw("size_exceeded") /\ UNCHANGED returned
                   /\ checks' = [checks EXCEPT !.size = @ + 1]
         ELSE IF sha256digest(resp.body) # digest
              THEN /\ Throw("digest_mismatch") /\ UNCHANGED returned
                   /\ checks' = [checks EXCEPT !.size = @ + 1, !.digest = @ + 1]
         ELSE /\ returned' = [given |-> TRUE, body |-> resp.body]
              /\ result' = "ok" /\ pc' = "done"
              /\ checks' = [checks EXCEPT !.size = @ + 1, !.digest = @ + 1]
              /\ UNCHANGED out_stream
  /\ UNCHANGED <<op, transport, digest, expected_size, file, hasher, written_size,
                 received_size, request_headers, attempt, resp, body_left,
                 last_write, bearer, basic_header, requests, sel, inst, xvars>>

Next ==
  \/ OpenFile \/ StartDownload \/ Deliver \/ TransportAbort \/ EndTransfer
  \/ BlobOn401 \/ ParseChallenge \/ getBasicAuthHeader \/ getBearerAuthHeader
  \/ BlobReset \/ BlobCheckOk \/ BlobCheckSize \/ BlobCheckDigest
  \/ ManifestRequest \/ ManifestOn401 \/ ManifestVerify

Spec == Init /\ [][Next]_vars

\* ============================================================== getTarget
\* Most signed targets in the TUF metadata.
MaxTargets == 3

Range(f) == {f[i] : i \in DOMAIN f}

DeviceHwId == "hw1"
Commits == {"C0", "C1"}
AppA == [name |-> "A", uri |-> "A@d1"]
AppB == [name |-> "B", uri |-> "B@d2"]
\* An app whose uri names no digest.
AppC == [name |-> "C", uri |-> "C"]
\* Character sequences of the version strings "9" and "10".
Versions == {<<"9">>, <<"1", "0">>}

\* Uptane::Target::Unknown()
Unknown ==
  [valid |-> FALSE, filename |-> "unknown", sha256 |-> "", hardwareIds |-> <<>>,
   custom_version |-> <<>>, apps |-> <<>>]

\* The signed targets a metadata file may hold, but for their names.  The
\* apps of a target are listed in the order Target::Apps visits them: by name.
\* Those for the device come in every combination; one for another device
\* and one with two hardware ids would match any medium the model has.
TargetPool ==
  [valid : {TRUE}, filename : {""}, sha256 : Commits,
   hardwareIds : {<<DeviceHwId>>},
   custom_version : Versions,
   apps : {<<AppA>>, <<AppA, AppB>>}]
    \cup [valid : {TRUE}, filename : {""}, sha256 : {"C1"},
          hardwareIds : {<<"hw2">>, <<DeviceHwId, "hw2">>},
          custom_version : {<<"1", "0">>},
          apps : {<<AppA, AppB>>}]

\* client.allTargets(): n targets, named T1..Tn.
TargetLists ==
  UNION {{[i \in 1..n |-> [f[i] EXCEPT !.filename = "T" \o ToString(i)]] :
            f \in [1..n -> TargetPool]} : n \in 0..MaxTargets}

\* What parseUpdateContent finds on the medium.
FoundCommits == {{}, {"C1"}, {"C0", "C1"}}
FoundApps == {{}, {"A@d1"}, {"B@d2"}, {"A@d1", "B@d2"}, {"A@d1", "X@d3"}}
TargetNames == {"", "T1", "Tx"}

\* ASCII codes of the characters of a version string; 0 past its end.
CharCode(c) ==
  CASE c = "0" -> 48 [] c = "1" -> 49 [] c = "2" -> 50 [] c = "3" -> 51
    [] c = "4" -> 52 [] c = "5" -> 53 [] c = "6" -> 54 [] c = "7" -> 55
    [] c = "8" -> 56 [] c = "9" -> 57 [] c = "." -> 46 [] OTHER -> 0

IsDigit(c) == CharCode(c) \in 48..57
CharAt(s, i) == IF i <= Len(s) THEN s[i] ELSE ""

RECURSIVE FirstDiff(_, _, _)
FirstDiff(a, b, i) ==
  IF i > Len(a) \/ i > Len(b) \/ a[i] # b[i] THEN i ELSE FirstDiff(a, b, i + 1)

RECURSIVE DigitRun(_, _)
DigitRun(s, i) == IF IsDigit(CharAt(s, i)) THEN 1 + DigitRun(s, i + 1) ELSE 0

\* strverscmp(a, b) on strings whose digit runs have no leading zero: the
\* strings are compared up to their first difference; two digit runs that
\* differ compare as numbers (the longer is the greater), anything else by
\* character code.
strverscmp(a, b) ==
  LET i  == FirstDiff(a, b, 1)
      c1 == CharAt(a, i)
      c2 == CharAt(b, i)
      in_digits == i > 1 /\ IsDigit(a[i - 1])
  IN  IF c1 = c2 THEN 0
      ELSE IF IsDigit(c1) /\ IsDigit(c2)
           THEN IF DigitRun(a, i) # DigitRun(b, i)
                THEN DigitRun(a, i) - DigitRun(b, i)
                ELSE CharCode(c1) - CharCode(c2)
      ELSE IF in_digits /\ IsDigit(c1) THEN 1
      ELSE IF in_digits /\ IsDigit(c2) THEN -1
      ELSE CharCode(c1) - CharCode(c2)

\* target_sort of getTarget: the ordering of available_targets
target_sort(t1, t2) == strverscmp(t1.custom_version, t2.custom_version) > 0

\* std::set::insert: the element goes before the first one it sorts before;
\* an element equivalent to one already in the set is not inserted.
RECURSIVE SetInsert(_, _)
SetInsert(set, t) ==
  IF set = <<>> THEN <<t>>
  ELSE IF target_sort(t, Head(set)) THEN <<t>> \o set
  ELSE IF ~target_sort(Head(set), t) THEN set
  ELSE <<Head(set)>> \o SetInsert(Tail(set), t)

\* AvailableTargets without the test of the hardware id against the device's.
RECURSIVE AvailableTargetsAnyHw(_, _, _)
AvailableTargetsAnyHw(targets, i, available) ==
  IF i > Len(targets) THEN available
  ELSE LET target == targets[i]
       IN  IF Len(target.hardwareIds) # 1
           THEN AvailableTargetsAnyHw(targets, i + 1, available)
           ELSE AvailableTargetsAnyHw(targets, i + 1, SetInsert(available, target))

\* getTarget's first loop: the targets with exactly one hardware id, the
\* device's, inserted into available_targets in the order of allTargets().
RECURSIVE AvailableTargets(_, _, _)
AvailableTargets(targets, i, available) ==
  IF i > Len(targets) THEN available
  ELSE LET target == targets[i]
       IN  IF Len(target.hardwareIds) # 1 THEN AvailableTargets(targets, i + 1, available)
           ELSE IF DeviceHwId # target.hardwareIds[1]
                THEN AvailableTargets(targets, i + 1, available)
           ELSE AvailableTargets(targets, i + 1, SetInsert(available, target))

\* removeMember(name) on the apps of a target
RemoveMember(apps, name) == SelectSeq(apps, LAMBDA a : a.name # name)

\* getTarget's loop over Target::Apps(t): the result is what is left of
\* found_but_not_target_apps and of shortlisted_target_apps.
RECURSIVE MatchApps(_, _, _, _, _)
MatchApps(apps, i, found_apps, found_but_not_target_apps, shortlisted_target_apps) ==
  IF i > Len(apps)
  THEN [pending |-> found_but_not_target_apps, shortlist |-> shortlisted_target_apps]
  ELSE IF found_but_not_target_apps = {}
  THEN [pending |-> found_but_not_target_apps, shortlist |-> shortlisted_target_apps]
  ELSE IF apps[i].uri \notin found_apps
  THEN MatchApps(apps, i + 1, found_apps, found_but_not_target_apps,
                 RemoveMember(shortlisted_target_apps, apps[i].name))
  ELSE MatchApps(apps, i + 1, found_apps, found_but_not_target_apps \ {apps[i].uri},
                 shortlisted_target_apps)

\* FindTarget without the test of the target's commit against the medium's.
RECURSIVE FindTargetAnyCommit(_, _, _, _)
FindTargetAnyCommit(available, i, found_ostree_commits, found_apps) ==
  IF i > Len(available) THEN Unknown
  ELSE LET t == available[i]
           m == MatchApps(t.apps, 1, found_apps, found_apps, t.apps)
       IN  IF m.pending = {}
           THEN [t EXCEPT !.apps = m.shortlist]
           ELSE FindTargetAnyCommit(available, i + 1, found_ostree_commits, found_apps)

\* getTarget's second loop: the first target of available_targets, from
\* position i on, whose commit is on the medium and that leaves no found app
\* unmatched, its apps replaced by the shortlist; Unknown if there is none.
RECURSIVE FindTarget(_, _, _, _)
FindTarget(available, i, found_ostree_commits, found_apps) ==
  IF i > Len(available) THEN Unknown
  ELSE LET t == available[i]
       IN  IF t.sha256 \notin found_ostree_commits
           THEN FindTarget(available, i + 1, found_ostree_commits, found_apps)
           ELSE LET m == MatchApps(t.apps, 1, found_apps, found_apps, t.apps)
                IN  IF m.pending = {}
                    THEN [t EXCEPT !.apps = m.shortlist]
                    ELSE FindTarget(available, i + 1, found_ostree_commits, found_apps)

\* getSpecificTarget looking only at the targets for the device.
getSpecificTargetForDevice(targets, target_name) ==
  IF \E i \in 1..Len(targets) :
       targets[i].filename = target_name /\ targets[i].hardwareIds = <<DeviceHwId>>
  THEN targets[CHOOSE i \in 1..Len(targets) :
                 targets[i].filename = target_name /\ targets[i].hardwareIds = <<DeviceHwId>>]
  ELSE Unknown

\* getSpecificTarget(client, target_name)
getSpecificTarget(targets, target_name) ==
  IF \E i \in 1..Len(targets) : targets[i].filename = target_name
  THEN targets[CHOOSE i \in 1..Len(targets) :
                 /\ targets[i].filename = target_name
                 /\ \A j \in 1..(i - 1) : targets[j].filename # target_name]
  ELSE Unknown

\* getTarget(client, src)
getTarget(targets, target_name, found_ostree_commits, found_apps) ==
  IF target_name # "" THEN getSpecificTarget(targets, target_name)
  ELSE FindTarget(AvailableTargets(targets, 1, <<>>), 1, found_ostree_commits, found_apps)

\* The inputs of one call of getTarget: the signed targets, src.TargetName,
\* and the content of the medium.
InitTarget ==
  /\ RegistryIdle /\ InstIdle /\ RunIdle /\ RegIdle /\ OffIdle /\ DigestIdle
  /\ \E targets \in TargetLists, name \in TargetNames,
        commits \in FoundCommits, apps \in FoundApps :
       sel = [pc |-> "call", allTargets |-> targets, TargetName |-> name,
              found_ostree_commits |-> commits, found_apps |-> apps,
              found_target |-> Unknown]

\* The call of getTarget.
GetTarget ==
  /\ sel.pc = "call"
  /\ sel' = [sel EXCEPT !.pc = "done",
                        !.found_target = getTarget(sel.allTargets, sel.TargetName,
                                                   sel.found_ostree_commits, sel.found_apps)]
  /\ UNCHANGED <<rvars, inst, xvars>>

NextTarget == GetTarget

SpecTarget == InitTarget /\ [][NextTarget]_vars

\* =========================================================== HashedDigest
\* boost::algorithm::to_lower_copy on the letters the inputs use.
UpperCase == <<"A", "B", "C", "D", "E", "F", "H", "S">>
LowerCase == <<"a", "b", "c", "d", "e", "f", "h", "s">>
ToLowerChar(c) ==
  IF \E i \in 1..Len(UpperCase) : UpperCase[i] = c
  THEN LowerCase[CHOOSE i \in 1..Len(UpperCase) : UpperCase[i] = c]
  ELSE c
to_lower_copy(s) == [i \in 1..Len(s) |-> ToLowerChar(s[i])]

\* HashedDigest::Type
Type == <<"s", "h", "a", "2", "5", "6", ":">>
HashSize == 64
ShortHashSize == 7

NoDigest == [ok |-> FALSE, error |-> "none", digest_ |-> <<>>, hash_ |-> <<>>,
             short_hash_ |-> <<>>]

\* HashedDigest::HashedDigest(hash_digest): the object built, or the
\* std::invalid_argument thrown.
HashedDigest(hash_digest) ==
  LET digest_ == to_lower_copy(hash_digest)
      hash_   == SubstrFrom(digest_, Len(Type))
  IN  IF Type # Substr(digest_, 0, Len(Type))
      THEN [NoDigest EXCEPT !.error = "Unsupported hash type"]
      ELSE IF HashSize # Len(hash_)
      THEN [NoDigest EXCEPT !.error = "Invalid hash size"]
      ELSE [ok |-> TRUE, error |-> "none", digest_ |-> digest_, hash_ |-> hash_,
            short_hash_ |-> Substr(hash_, 0, ShortHashSize)]

\* Uri::parseUri(uri, factory_app): the Uri built, or ok = FALSE where it
\* throws std::invalid_argument.
NoUri == [ok |-> FALSE, digest |-> NoDigest, app |-> <<>>, factory |-> <<>>,
          repo |-> <<>>, registryHostname |-> <<>>]

parseUri(uri, factory_app) ==
  LET split_pos      == FindChar(uri, "@", 0)
      digest_str     == SubstrFrom(uri, split_pos + 1)
      name_pos_start == FindChar(uri, "/", 0)
      registry_hostname == Substr(uri, 0, name_pos_start)
      name           == Substr(uri, name_pos_start + 1, split_pos - name_pos_start - 1)
      slash          == RFind(name, <<"/">>)
      factory        == IF slash # NPOS THEN Substr(name, 0, slash) ELSE <<>>
      app_pos_start  == IF slash # NPOS THEN slash ELSE -1
      app            == Substr(name, app_pos_start + 1, Len(name) - app_pos_start - 1)
      hashed         == HashedDigest(digest_str)
  IN  IF split_pos = NPOS THEN NoUri
      ELSE IF name_pos_start = NPOS THEN NoUri
      ELSE IF split_pos <= name_pos_start + 1 THEN NoUri
      ELSE IF factory_app /\ (factory = <<>> \/ FindChar(factory, "/", 0) # NPOS) THEN NoUri
      ELSE IF ~hashed.ok THEN NoUri
      ELSE [ok |-> TRUE, digest |-> hashed, app |-> app, factory |-> factory,
            repo |-> name, registryHostname |-> registry_hostname]

\* n characters: d, then c repeated.
Body(n, d, c) == [i \in 1..n |-> IF i = 1 THEN d ELSE c]

\* The strings a digest is constructed from: a prefix, then a run of
\* characters of a length around HashSize.
DigestPrefixes ==
  {Type, <<"S", "H", "A", "2", "5", "6", ":">>, <<"S", "h", "a", "2", "5", "6", ":">>,
   <<"s", "h", "a", "5", "1", "2", ":">>, <<"s", "h", "a", "2", "5", "6">>, <<>>}
DigestChars == {"a", "F", "0", "g", "/", "."}
DigestLengths == {0, 1, ShortHashSize, HashSize - 1, HashSize, HashSize + 1}
DigestInputs ==
  {p \o Body(n, d, c) : p \in DigestPrefixes, n \in DigestLengths,
                        d \in DigestChars, c \in DigestChars}

InitDigest ==
  /\ RegistryIdle /\ SelIdle /\ InstIdle /\ RunIdle /\ RegIdle /\ OffIdle
  /\ \E input \in DigestInputs : hdig = [pc |-> "new", input |-> input, obj |-> NoDigest]

\* HashedDigest{input}
Construct ==
  /\ hdig.pc = "new"
  /\ hdig' = [hdig EXCEPT !.pc = "done", !.obj = HashedDigest(hdig.input)]
  /\ UNCHANGED <<rvars, sel, inst, runc, reg, oreg>>

NextDigest == Construct

SpecDigest == InitDigest /\ [][NextDigest]_vars

\* =========================================================== registerApps
\* A JSON object as a function from its member names; {} is EmptyJson.
EmptyJson == <<>>

\* Splice replacing the whole object of image_repo.
SpliceReplacesRepo(repositories, image_repo, image_uri_str, config_digest) ==
  (image_repo :> (image_uri_str :> config_digest)) @@ repositories

\* Splice erasing a reference that is registered already.
SpliceErasesPresent(repositories, image_repo, image_uri_str, config_digest) ==
  LET old == IF image_repo \in DOMAIN repositories THEN repositories[image_repo]
             ELSE EmptyJson
  IN  IF image_uri_str \in DOMAIN old
      THEN (image_repo :> [r \in DOMAIN old \ {image_uri_str} |-> old[r]]) @@ repositories
      ELSE (image_repo :> ((image_uri_str :> config_digest) @@ old)) @@ repositories

\* repositories["Repositories"][image_repo][image_uri_str] = config_digest()
Splice(repositories, image_repo, image_uri_str, config_digest) ==
  LET old == IF image_repo \in DOMAIN repositories THEN repositories[image_repo]
             ELSE EmptyJson
  IN  (image_repo :> ((image_uri_str :> config_digest) @@ old)) @@ repositories

\* One service's image as the apps store holds it: the pinned reference of
\* the compose file, and what index.json and the manifest blob lead to.
\* `fault` names the step of registerApps that throws on it, if any.
ImageFaults == {"none", "no_index", "bad_manifest_digest", "no_manifest"}

\* image: the reference in the compose file; config: the config digest the
\* image's manifest names.
Image(image, config, fault) == [image |-> image, config |-> config, fault |-> fault]

\* A digest string and a pinned image reference, as character sequences.
Sha(c) == Type \o Body(HashSize, c, c)
Pinned(name, c) == name \o <<"@">> \o Sha(c)

\* The uris of the targets' apps, spelled out: <host>/<factory>/<app>@<digest>.
AppUri(uri) ==
  CASE uri = "A@d1" -> Pinned(<<"h", "/", "f", "/", "A">>, "1")
    [] uri = "B@d2" -> Pinned(<<"h", "/", "f", "/", "B">>, "2")
    [] OTHER -> <<"h", "/", "f", "/", "C">>

\* registerApps' loop over the services of one app, from service i on.
RECURSIVE RegisterServices(_, _, _)
RegisterServices(services, i, repositories) ==
  IF i > Len(services) THEN [ok |-> TRUE, repositories |-> repositories]
  ELSE LET image_uri_str == services[i].image
           image_uri     == parseUri(image_uri_str, FALSE)
           config_digest == HashedDigest(services[i].config)
           image_repo    == Str(image_uri.registryHostname) \o "/" \o Str(image_uri.repo)
       IN  IF ~image_uri.ok \/ services[i].fault # "none" \/ ~config_digest.ok
           THEN [ok |-> FALSE, repositories |-> repositories]
           ELSE RegisterServices(services, i + 1,
                                 Splice(repositories, image_repo, Str(image_uri_str),
                                        Str(config_digest.digest_)))

\* registerApps' loop over Target::Apps(target), from app i on.  `store`
\* maps an app's name to its directory in the apps store: whether it
\* exists, whether its compose file parses, and its services.
RECURSIVE RegisterTargetApps(_, _, _, _)
RegisterTargetApps(apps, i, store, repositories) ==
  IF i > Len(apps) THEN [ok |-> TRUE, repositories |-> repositories]
  ELSE LET app_uri == parseUri(AppUri(apps[i].uri), TRUE)
           app_dir == store[apps[i].name]
       IN  IF ~app_uri.ok THEN [ok |-> FALSE, repositories |-> repositories]
           ELSE IF ~app_dir.exists
           THEN RegisterTargetApps(apps, i + 1, store, repositories)
           ELSE IF ~app_dir.compose_ok THEN [ok |-> FALSE, repositories |-> repositories]
           ELSE LET r == RegisterServices(app_dir.services, 1, repositories)
                IN  IF ~r.ok THEN r
                    ELSE RegisterTargetApps(apps, i + 1, store, r.repositories)

\* registerApps(target, apps_store_root, docker_root) on the index file
\* [exists, json]: the file it leaves, and whether it returned or threw.
registerApps(target, store, repositories_file) ==
  LET repositories == IF repositories_file.exists THEN repositories_file.json
                      ELSE EmptyJson
      r == RegisterTargetApps(target.apps, 1, store, repositories)
  IN  IF r.ok THEN [ok |-> TRUE, file |-> [exists |-> TRUE, json |-> r.repositories]]
      ELSE [ok |-> FALSE, file |-> repositories_file]

\* ---------------------------------------------------------------- install
NoDir == [exists |-> FALSE, compose_ok |-> TRUE, services |-> <<>>]
Dir(services) == [exists |-> TRUE, compose_ok |-> TRUE, services |-> services]

\* The apps store as download() may leave it.
RepoR == <<"h", "/", "r">>
RepoQ == <<"h", "/", "f", "/", "q">>
AppDirsA == {NoDir, Dir(<<Image(Pinned(RepoR, "1"), Sha("c"), "none")>>),
             Dir(<<Image(Pinned(RepoR, "1"), Sha("c"), "no_manifest")>>)}
AppDirsB == {NoDir,
             Dir(<<Image(Pinned(RepoQ, "2"), Sha("d"), "none"),
                   Image(Pinned(RepoR, "3"), Sha("E"), "none")>>),
             Dir(<<Image(RepoQ, Sha("d"), "none")>>),
             Dir(<<Image(Pinned(RepoQ, "2"), Sha("d"), "none"),
                   Image(Pinned(RepoR, "3"), <<"s", "h", "a">>, "none")>>),
             Dir(<<Image(Pinned(RepoQ, "2"), Sha("d"), "no_index")>>),
             [exists |-> TRUE, compose_ok |-> FALSE, services |-> <<>>]}
Stores == {("A" :> a) @@ ("B" :> b) @@ ("C" :> NoDir) : a \in AppDirsA, b \in AppDirsB}

\* The repositories index before the call: no file, or one with an entry.
IndexFiles ==
  {[exists |-> FALSE, json |-> EmptyJson],
   [exists |-> TRUE, json |-> EmptyJson],
   [exists |-> TRUE, json |-> ("h/r" :> (Str(Pinned(RepoR, "1")) :> Str(Sha("0"))))],
   [exists |-> TRUE, json |-> ("h/x" :> (Str(Pinned(<<"h", "/", "x">>, "4")) :> Str(Sha("0"))))]}

ResultCodes == {"kNeedCompletion", "kOk", "kInstallFailed"}

\* install(cfg_in, src) at entry: the offline client is built; the targets
\* of the metadata, the medium and the index file are whatever they are.
InitInstall ==
  /\ RegistryIdle /\ RunIdle /\ RegIdle /\ OffIdle /\ DigestIdle
  /\ \E targets \in {l \in TargetLists : Len(l) <= 1}, name \in TargetNames,
        commits \in FoundCommits, apps \in FoundApps :
       sel = [pc |-> "idle", allTargets |-> targets, TargetName |-> name,
              found_ostree_commits |-> commits, found_apps |-> apps,
              found_target |-> Unknown]
  /\ \E index \in IndexFiles :
       inst = [pc |-> "updateImageMeta", trace |-> <<>>, meta_ok |-> FALSE,
               target |-> Unknown, download_ok |-> FALSE, registered |-> FALSE,
               store |-> ("A" :> NoDir) @@ ("B" :> NoDir),
               index0 |-> index, repositories_file |-> index,
               current |-> "unread", install_res |-> "none",
               action |-> "none", failure |-> "none"]

Raise(failure) == [inst EXCEPT !.pc = "done", !.failure = failure]

\* auto rc = client->updateImageMeta(); a failure throws.
UpdateImageMeta ==
  /\ inst.pc = "updateImageMeta"
  /\ \E ok \in BOOLEAN :
       inst' = [(IF ok THEN [inst EXCEPT !.pc = "getTarget", !.meta_ok = TRUE]
                 ELSE Raise("tuf_pull_failed"))
                EXCEPT !.trace = Append(inst.trace, "updateImageMeta")]
  /\ UNCHANGED <<rvars, sel, xvars>>

\* auto target{getTarget(*client, src)}; an invalid target throws.
SelectTarget ==
  /\ inst.pc = "getTarget"
  /\ LET target == getTarget(sel.allTargets, sel.TargetName,
                             sel.found_ostree_commits, sel.found_apps)
     IN  inst' = [(IF target.valid THEN [inst EXCEPT !.pc = "download", !.target = target]
                   ELSE Raise("target_not_found"))
                  EXCEPT !.trace = Append(inst.trace, "getTarget")]
  /\ UNCHANGED <<rvars, sel, xvars>>

\* Download with the test of download_res left out.
DownloadIgnoresFailure ==
  /\ inst.pc = "download"
  /\ \E store \in Stores, ok \in BOOLEAN :
       inst' = [inst EXCEPT !.pc = "registerApps", !.download_ok = ok,
                            !.store = store,
                            !.trace = Append(inst.trace, "download")]
  /\ UNCHANGED <<rvars, sel, xvars>>

\* client->download(target, ...): fills the apps store; a failure throws.
Download ==
  /\ inst.pc = "download"
  /\ \/ \E store \in Stores :
          inst' = [inst EXCEPT !.pc = "registerApps", !.download_ok = TRUE,
                               !.store = store,
                               !.trace = Append(inst.trace, "download")]
     \/ inst' = [Raise("download_failed")
                 EXCEPT !.trace = Append(inst.trace, "download")]
  /\ UNCHANGED <<rvars, sel, xvars>>

\* registerApps(target, reset_apps_root, images_data_root); what it throws
\* leaves install.
RegisterApps ==
  /\ inst.pc = "registerApps"
  /\ LET r == registerApps(inst.target, inst.store, inst.repositories_file)
     IN  inst' = [(IF r.ok
                   THEN [inst EXCEPT !.pc = "getCurrent", !.registered = TRUE,
                                     !.repositories_file = r.file]
                   ELSE Raise("register_failed"))
                  EXCEPT !.trace = Append(inst.trace, "registerApps")]
  /\ UNCHANGED <<rvars, sel, xvars>>

\* CompareCurrent with the comparison inverted.
CompareCurrentInverted ==
  /\ inst.pc = "getCurrent"
  /\ \E current \in Commits :
       inst' = [(IF current # inst.target.sha256
                 THEN [inst EXCEPT !.pc = "done", !.action = "NeedDockerRestart"]
                 ELSE [inst EXCEPT !.pc = "install"])
                EXCEPT !.current = current,
                       !.trace = Append(inst.trace, "getCurrent")]
  /\ UNCHANGED <<rvars, sel, xvars>>

\* if (client->getCurrent().sha256Hash() == target.sha256Hash())
\*   return PostInstallAction::NeedDockerRestart;
CompareCurrent ==
  /\ inst.pc = "getCurrent"
  /\ \E current \in Commits :
       inst' = [(IF current = inst.target.sha256
                 THEN [inst EXCEPT !.pc = "done", !.action = "NeedDockerRestart"]
                 ELSE [inst EXCEPT !.pc = "install"])
                EXCEPT !.current = current,
                       !.trace = Append(inst.trace, "getCurrent")]
  /\ UNCHANGED <<rvars, sel, xvars>>

\* client->install(target): any code but kNeedCompletion throws, else
\* return PostInstallAction::NeedReboot.
InstallTarget ==
  /\ inst.pc = "install"
  /\ \E install_res \in ResultCodes :
       inst' = [(IF install_res # "kNeedCompletion" THEN Raise("install_failed")
                 ELSE [inst EXCEPT !.pc = "done", !.action = "NeedReboot"])
                EXCEPT !.install_res = install_res,
                       !.trace = Append(inst.trace, "install")]
  /\ UNCHANGED <<rvars, sel, xvars>>

NextInstall ==
  \/ UpdateImageMeta \/ SelectTarget \/ Download \/ RegisterApps
  \/ CompareCurrent \/ InstallTarget

SpecInstall == InitInstall /\ [][NextInstall]_vars

\* ==================================================================== run
\* run(cfg_in, src, docker_client_http_client) at entry: the offline client
\* is built; the metadata, the medium and the booted commit are whatever
\* they are, and so is the repositories index (index0 is its content at
\* entry, repositories_file its content now).
InitRun ==
  /\ RegistryIdle /\ InstIdle /\ RegIdle /\ OffIdle /\ DigestIdle
  /\ \E targets \in {l \in TargetLists : Len(l) <= 1}, name \in TargetNames,
        commits \in FoundCommits, apps \in FoundApps :
       sel = [pc |-> "idle", allTargets |-> targets, TargetName |-> name,
              found_ostree_commits |-> commits, found_apps |-> apps,
              found_target |-> Unknown]
  /\ \E index \in IndexFiles :
       runc = [pc |-> "checkImageMetaOffline", trace |-> <<>>, meta_ok |-> FALSE,
               target |-> Unknown, current |-> "unread", finalize_ok |-> "unset",
               download_ok |-> "unset", install_res |-> "none",
               active |-> "unset", failure |-> "none",
               index0 |-> index, repositories_file |-> index]

RunRaise(failure) == [runc EXCEPT !.pc = "done", !.failure = failure]

\* if (!client->checkImageMetaOffline()) throw
CheckImageMetaOffline ==
  /\ runc.pc = "checkImageMetaOffline"
  /\ \E ok \in BOOLEAN :
       runc' = [(IF ok THEN [runc EXCEPT !.pc = "getTarget", !.meta_ok = TRUE]
                 ELSE RunRaise("invalid_tuf_metadata"))
                EXCEPT !.trace = Append(runc.trace, "checkImageMetaOffline")]
  /\ UNCHANGED <<rvars, sel, inst, reg, oreg, hdig>>

\* auto target{getTarget(*client, src)}; an invalid target throws.
RunSelectTarget ==
  /\ runc.pc = "getTarget"
  /\ LET target == getTarget(sel.allTargets, sel.TargetName,
                             sel.found_ostree_commits, sel.found_apps)
     IN  runc' = [(IF target.valid THEN [runc EXCEPT !.pc = "getCurrent", !.target = target]
                   ELSE RunRaise("target_not_found"))
                  EXCEPT !.trace = Append(runc.trace, "getTarget")]
  /\ UNCHANGED <<rvars, sel, inst, reg, oreg, hdig>>

\* The comparison with its branches exchanged.
RunCompareCurrentInverted ==
  /\ runc.pc = "getCurrent"
  /\ \E current \in Commits :
       runc' = [runc EXCEPT !.pc = IF current = runc.target.sha256
                                   THEN "finalizeInstall" ELSE "download",
                            !.current = current,
                            !.trace = Append(runc.trace, "getCurrent")]
  /\ UNCHANGED <<rvars, sel, inst, reg, oreg, hdig>>

\* if (current_target.sha256Hash() != target.sha256Hash())
RunCompareCurrent ==
  /\ runc.pc = "getCurrent"
  /\ \E current \in Commits :
       runc' = [runc EXCEPT !.pc = IF current # runc.target.sha256
                                   THEN "finalizeInstall" ELSE "download",
                            !.current = current,
                            !.trace = Append(runc.trace, "getCurrent")]
  /\ UNCHANGED <<rvars, sel, inst, reg, oreg, hdig>>

\* if (!client->finalizeInstall()) throw
FinalizeInstall ==
  /\ runc.pc = "finalizeInstall"
  /\ \E ok \in BOOLEAN :
       runc' = [(IF ok THEN [runc EXCEPT !.pc = "isTargetActive"]
                 ELSE RunRaise("run_failed"))
                EXCEPT !.finalize_ok = IF ok THEN "ok" ELSE "failed",
                       !.trace = Append(runc.trace, "finalizeInstall")]
  /\ UNCHANGED <<rvars, sel, inst, reg, oreg, hdig>>

\* const auto download_res = client->download(...); a failure throws.
RunDownload ==
  /\ runc.pc = "download"
  /\ \E ok \in BOOLEAN :
       runc' = [(IF ok THEN [runc EXCEPT !.pc = "install"]
                 ELSE RunRaise("download_failed"))
                EXCEPT !.download_ok = IF ok THEN "ok" ELSE "failed",
                       !.trace = Append(runc.trace, "download")]
  /\ UNCHANGED <<rvars, sel, inst, reg, oreg, hdig>>

\* client->install(target); the result code is dropped.
RunInstall ==
  /\ runc.pc = "install"
  /\ \E install_res \in ResultCodes :
       runc' = [runc EXCEPT !.pc = "isTargetActive",
                            !.install_res = install_res,
                            !.trace = Append(runc.trace, "install")]
  /\ UNCHANGED <<rvars, sel, inst, reg, oreg, hdig>>

\* if (!client->isTargetActive(target)) throw; else run returns.
IsTargetActive ==
  /\ runc.pc = "isTargetActive"
  /\ \E active \in BOOLEAN :
       runc' = [(IF active THEN [runc EXCEPT !.pc = "done"]
                 ELSE RunRaise("target_not_running"))
                EXCEPT !.active = IF active THEN "yes" ELSE "no",
                       !.trace = Append(runc.trace, "isTargetActive")]
  /\ UNCHANGED <<rvars, sel, inst, reg, oreg, hdig>>

NextRun ==
  \/ CheckImageMetaOffline \/ RunSelectTarget \/ RunCompareCurrent
  \/ FinalizeInstall \/ RunDownload \/ RunInstall \/ IsTargetActive

SpecRun == InitRun /\ [][NextRun]_vars

\* ===================================================== registerApps, stepwise
\* The number of pieces in which a file's content reaches the disk.
FileChunks == 2

\* The shortlisted targets registerApps is called with.
RegTargets ==
  {[Unknown EXCEPT !.valid = TRUE, !.filename = "T1", !.sha256 = "C0",
                   !.hardwareIds = <<DeviceHwId>>, !.apps = apps] :
     apps \in {<<>>, <<AppA>>, <<AppB>>, <<AppA, AppB>>, <<AppA, AppC>>}}

NoFile == [exists |-> FALSE, json |-> EmptyJson, bytes |-> 0]

\* registerApps(target, apps_store_root, docker_root) at entry, on any apps
\* store and any repositories index; the index file on disk is whole.
InitRegister ==
  /\ RegistryIdle /\ SelIdle /\ InstIdle /\ RunIdle /\ OffIdle /\ DigestIdle
  /\ \E target \in RegTargets, store \in Stores, index \in IndexFiles :
       reg = [pc |-> "load", target |-> target, store |-> store,
              index0 |-> index, index1 |-> index, old |-> index,
              disk |-> index, disk_bytes |-> FileChunks,
              tmp |-> NoFile, repositories |-> EmptyJson,
              calls |-> 0, failure |-> "none"]

\* RegLoad starting from an empty object whatever the index file holds.
RegLoadFresh ==
  /\ reg.pc = "load"
  /\ reg' = [reg EXCEPT !.pc = "collect", !.old = reg.disk,
                        !.repositories = EmptyJson]
  /\ UNCHANGED <<rvars, sel, inst, runc, oreg, hdig>>

\* if (exists(repositories_file)) repositories = parseJSONFile(...)
\* else repositories = parseJSON("{\"Repositories\":{}}")
RegLoad ==
  /\ reg.pc = "load"
  /\ reg' = [reg EXCEPT !.pc = "collect", !.old = reg.disk,
                        !.repositories = IF reg.disk.exists THEN reg.disk.json
                                         ELSE EmptyJson]
  /\ UNCHANGED <<rvars, sel, inst, runc, oreg, hdig>>

\* RegCollect writing what it has collected when the loop throws.
RegCollectSavesPartial ==
  /\ reg.pc = "collect"
  /\ LET r == RegisterTargetApps(reg.target.apps, 1, reg.store, reg.repositories)
     IN  reg' = IF r.ok
                THEN [reg EXCEPT !.pc = "writeFile", !.repositories = r.repositories]
                ELSE [reg EXCEPT !.pc = "done", !.failure = "register_failed",
                                 !.disk = [exists |-> TRUE, json |-> r.repositories]]
  /\ UNCHANGED <<rvars, sel, inst, runc, oreg, hdig>>

\* The loop over Target::Apps(target); what it throws leaves registerApps
\* before the index is written.
RegCollect ==
  /\ reg.pc = "collect"
  /\ LET r == RegisterTargetApps(reg.target.apps, 1, reg.store, reg.repositories)
     IN  reg' = IF r.ok
                THEN [reg EXCEPT !.pc = "writeFile", !.repositories = r.repositories]
                ELSE [reg EXCEPT !.pc = "done", !.failure = "register_failed"]
  /\ UNCHANGED <<rvars, sel, inst, runc, oreg, hdig>>

\* RegWriteFile writing straight into the index file.
RegWriteFileInPlace ==
  /\ reg.pc = "writeFile"
  /\ reg' = [reg EXCEPT !.pc = "tmp_open", !.disk_bytes = 0,
                        !.disk = [exists |-> TRUE, json |-> reg.repositories]]
  /\ UNCHANGED <<rvars, sel, inst, runc, oreg, hdig>>

\* Utils::writeFile(repositories_file.string(), repositories) is entered.
RegWriteFile ==
  /\ reg.pc = "writeFile"
  /\ reg' = [reg EXCEPT !.pc = "tmp_open"]
  /\ UNCHANGED <<rvars, sel, inst, runc, oreg, hdig>>

\* Utils::writeFile creates the temporary file next to the index ...
WriteFileOpen ==
  /\ reg.pc = "tmp_open"
  /\ reg' = [reg EXCEPT !.pc = "tmp_write",
                        !.tmp = [exists |-> TRUE, json |-> reg.repositories, bytes |-> 0]]
  /\ UNCHANGED <<rvars, sel, inst, runc, oreg, hdig>>

\* ... writes the content into it piece by piece ...
WriteFileData ==
  /\ reg.pc = "tmp_write"
  /\ reg' = IF reg.tmp.bytes < FileChunks
            THEN [reg EXCEPT !.tmp.bytes = @ + 1]
            ELSE [reg EXCEPT !.pc = "rename"]
  /\ UNCHANGED <<rvars, sel, inst, runc, oreg, hdig>>

\* ... and renames it over the index; registerApps returns.
WriteFileRename ==
  /\ reg.pc = "rename"
  /\ reg' = [reg EXCEPT !.pc = "returned", !.calls = @ + 1,
                        !.disk = [exists |-> TRUE, json |-> reg.tmp.json],
                        !.disk_bytes = reg.tmp.bytes,
                        !.tmp = NoFile,
                        !.index1 = IF reg.calls = 0
                                   THEN [exists |-> TRUE, json |-> reg.tmp.json]
                                   ELSE reg.index1]
  /\ UNCHANGED <<rvars, sel, inst, runc, oreg, hdig>>

\* registerApps is applied again to the same target, on the same apps store.
RegAgain ==
  /\ reg.pc = "returned" /\ reg.calls < 2
  /\ reg' = [reg EXCEPT !.pc = "load"]
  /\ UNCHANGED <<rvars, sel, inst, runc, oreg, hdig>>

\* The process dies: what is in memory is lost, the files stay as they are.
RegCrash ==
  /\ reg.pc \in {"load", "collect", "writeFile", "tmp_open", "tmp_write", "rename"}
  /\ reg' = [reg EXCEPT !.pc = "crashed", !.repositories = EmptyJson]
  /\ UNCHANGED <<rvars, sel, inst, runc, oreg, hdig>>

NextRegister ==
  \/ RegLoad \/ RegCollect \/ RegWriteFile \/ WriteFileOpen \/ WriteFileData
  \/ WriteFileRename \/ RegAgain \/ RegCrash

SpecRegister == InitRegister /\ [][NextRegister]_vars

\* ======================================================== OfflineRegistry
\* The longest url tail, in pieces.
MaxPieces == 3

\* Concatenation of a sequence of sequences.
RECURSIVE Concat(_)
Concat(ss) == IF ss = <<>> THEN <<>> ELSE Head(ss) \o Concat(Tail(ss))

\* Urls are character sequences; the scheme and host, and the fixed path
\* segments, stand as one element each.
Host == <<"https://hub.foundries.io">>
auth_endpoint_ == Host \o <<"/token-auth">>
UrlPieces == {Type, <<"/">>, <<".", ".">>, <<"a", "b">>}
UrlTails == {Concat(ps) : ps \in SeqsUpTo(UrlPieces, MaxPieces)}
Urls ==
  {Host \o <<"/v2/f/app/blobs/">> \o t : t \in UrlTails}
    \cup {auth_endpoint_ \o t : t \in UrlTails}

NoPath == <<>>

InitOffline ==
  /\ RegistryIdle /\ SelIdle /\ InstIdle /\ RunIdle /\ RegIdle /\ DigestIdle
  /\ \E url \in Urls, method \in {"get", "download"} :
       oreg = [pc |-> "request", method |-> method, url |-> url, opened |-> FALSE,
               file |-> NoPath, status |-> 0]

\* The part of the url getAppItem and download take for the blob's file
\* name: what follows the last "sha256:".
BlobName(url) ==
  LET hash_prefix == Type
      digest_pos  == RFind(url, hash_prefix)
      hash_pos    == digest_pos + Len(hash_prefix)
  IN  [found |-> digest_pos # NPOS, hash |-> SubstrFrom(url, hash_pos)]

\* OfflineRegistry::get(url, maxsize): the token for the auth endpoint,
\* else getAppItem(url), which reads blobs_dir_ / hash.
OfflineGet ==
  /\ oreg.pc = "request" /\ oreg.method = "get"
  /\ oreg' = IF StartsWith(oreg.url, auth_endpoint_)
             THEN [oreg EXCEPT !.pc = "done", !.status = 200]
             ELSE IF ~BlobName(oreg.url).found
             THEN [oreg EXCEPT !.pc = "done", !.status = 400]
             ELSE [oreg EXCEPT !.pc = "done", !.status = 200, !.opened = TRUE,
                               !.file = BlobName(oreg.url).hash]
  /\ UNCHANGED <<rvars, sel, inst, runc, reg, hdig>>

\* OfflineRegistry::download(url, write_cb, ...): streams blobs_dir_ / hash.
OfflineDownload ==
  /\ oreg.pc = "request" /\ oreg.method = "download"
  /\ oreg' = IF ~BlobName(oreg.url).found
             THEN [oreg EXCEPT !.pc = "done", !.status = 400]
             ELSE [oreg EXCEPT !.pc = "done", !.status = 200, !.opened = TRUE,
                               !.file = BlobName(oreg.url).hash]
  /\ UNCHANGED <<rvars, sel, inst, runc, reg, hdig>>

NextOffline == OfflineGet \/ OfflineDownload

SpecOffline == InitOffline /\ [][NextOffline]_vars

\* =================================================================== claims
\* ------------------------------------------------ registry client (Spec)
BlobDone == op = "blob" /\ pc = "done"
ManifestDone == op = "manifest" /\ pc = "done"

\* C1: when downloadBlob ends, normally or by a failure, the file at path
\* holds exactly expected_size bytes whose SHA-256 is the pinned digest, or
\* no file exists at path.
C1_FileCompleteOrAbsent ==
  BlobDone =>
    \/ ~file.exists
    \/ /\ Len(file.data) = expected_size
       /\ sha256digest(file.data) = digest

\* C2, as claimed: once the transport has reported a 2xx status, the size
\* check and the digest check each run exactly once, and never before that
\* or before the sink is closed; a failed check removes the file, and the
\* call returns normally only when both pass.
C2_BothChecksExactlyOnce ==
  op = "blob" =>
    /\ (checks.size > 0 \/ checks.digest > 0) => isOk(resp) /\ ~out_stream.open
    /\ (pc = "done" /\ isOk(resp)) => checks.size = 1 /\ checks.digest = 1
    /\ result \in {"size_mismatch", "digest_mismatch"} => ~file.exists
    /\ result = "ok" => written_size = expected_size /\ hasher = digest

\* C2, amended: the size check runs exactly once after a 2xx status and the
\* closing of the sink; the digest check runs at most once, exactly when the
\* size check passed; a failed check removes the file, and the call returns
\* normally only when both pass.
C2_ChecksAfterSuccess ==
  op = "blob" =>
    /\ (checks.size > 0 \/ checks.digest > 0) => isOk(resp) /\ ~out_stream.open
    /\ checks.digest > 0 => checks.size = 1 /\ written_size = expected_size
    /\ (pc = "done" /\ isOk(resp)) =>
         /\ checks.size = 1
         /\ checks.digest = IF written_size = expected_size THEN 1 ELSE 0
    /\ result \in {"size_mismatch", "digest_mismatch"} => ~file.exists
    /\ result = "ok" =>
         /\ checks.size = 1 /\ checks.digest = 1
         /\ written_size = expected_size /\ hasher = digest

\* C2's case: the size check failed after a 2xx and the digest check did not run.
C2_Witness ==
  /\ BlobDone /\ isOk(resp) /\ result = "size_mismatch"
  /\ checks.size = 1 /\ checks.digest = 0 /\ ~file.exists

\* C3: when the transport sends expected_size + 1 > 1 bytes and the chunk
\* crossing expected_size has reached the callback, the callback has
\* returned a value other than the chunk's length, the file is deleted and
\* the failure raised is the size mismatch.
C3_OversizeIsSizeMismatch ==
  (/\ BlobDone /\ expected_size > 0
   /\ resp.status = 200 /\ resp.length = expected_size + 1
   /\ last_write.crossing /\ out_stream.good) =>
    /\ last_write.ret # last_write.n
    /\ ~file.exists
    /\ result = "size_mismatch"

RegistryRequests == {i \in 1..Len(requests) : requests[i].to = "registry"}
AuthRequests == {i \in 1..Len(requests) : requests[i].to \in {"creds", "token"}}

\* C4: a call issues at most two registry requests; a second one only after
\* a first reply of 401 with a www-authenticate header and a token obtained;
\* a second reply that is not 2xx fails the call; no request goes to the
\* credentials or token endpoint unless the first reply was 401.
C4_AtMostOneRetry ==
  op \in {"blob", "manifest"} =>
    /\ Cardinality(RegistryRequests) <= 2
    /\ \A i \in RegistryRequests :
         i > 1 =>
           /\ requests[1].to = "registry"
           /\ requests[1].reply.status = 401
           /\ requests[1].reply.header # NoHeader
           /\ \E j \in 1..(i - 1) :
                /\ requests[j].to = "token"
                /\ requests[j].reply.ok /\ requests[j].reply.token # ""
    /\ AuthRequests # {} => requests[1].to = "registry" /\ requests[1].reply.status = 401
    /\ (pc = "done" /\ Cardinality(RegistryRequests) = 2 /\ ~isOk(resp)) =>
         result = "transport_failed"

\* C4's case: the retried request was answered 401 again and the call failed.
C4_Witness ==
  /\ pc = "done" /\ Cardinality(RegistryRequests) = 2
  /\ resp.status = 401 /\ result = "transport_failed"

\* The failures getAppManifest raises after it has accepted the challenge.
FailuresPastChallenge ==
  {"creds_failed", "creds_invalid", "token_failed", "token_invalid",
   "transport_failed", "size_mismatch", "size_exceeded", "digest_mismatch"}

\* C5: after a first reply of 401 whose www-authenticate value is
\* Bearer realm="https://x/t",service="s",scope="repository:r:pull",
\* getAppManifest succeeds, its second request carrying the first request's
\* headers and "authorization: bearer T", unless the token endpoint or the
\* second reply fails it.
C5_CapitalBearerAccepted ==
  (/\ ManifestDone /\ requests # <<>>
   /\ requests[1].reply = [status |-> 401, header |-> HdrBearerUpper]) =>
    \/ /\ result = "ok"
       /\ requests[Len(requests)].headers = <<"accept:format", "authorization: bearer T">>
    \/ result \in FailuresPastChallenge

\* The size test of getAppManifest on the response in hand.
ManifestSizeOk ==
  IF expected_size # NoSize THEN Len(resp.body) = expected_size
  ELSE Len(resp.body) <= DefManifestMaxSize

\* C6: getAppManifest returns a body only if the final status is 2xx, the
\* body has the expected size (or is within the cap when no size is given)
\* and its SHA-256 is the pinned digest; the body returned is the response's;
\* in every other case the call raises and returns nothing.
C6_ManifestVerified ==
  op = "manifest" =>
    /\ returned.given =>
         /\ result = "ok" /\ isOk(resp) /\ ManifestSizeOk
         /\ sha256digest(resp.body) = digest
         /\ returned.body = resp.body
    /\ pc = "done" =>
         IF pc = "done" /\ attempt > 0 /\ isOk(resp) /\ ManifestSizeOk
            /\ sha256digest(resp.body) = digest
            /\ result \notin {"no_auth_header", "bad_challenge", "creds_failed",
                              "creds_invalid", "token_failed", "token_invalid"}
         THEN result = "ok" /\ returned.given
         ELSE result \notin {"ok", "none"} /\ ~returned.given

\* C6's case: a manifest of unknown size within the cap was returned.
C6_Witness ==
  /\ ManifestDone /\ result = "ok" /\ expected_size = NoSize
  /\ returned.given /\ Len(returned.body) = DefManifestMaxSize

\* ------------------------------------------------- selector (SpecTarget)
SelectorDone == sel.pc = "done" /\ sel.TargetName = ""
SignedTargets == Range(sel.allTargets)
TargetUris(T) == {a.uri : a \in Range(T.apps)}

\* The acceptance rule: the target's commit is the commit of a ref of the
\* medium's repository and every app uri of the medium is one of the target's.
Accepts(T) ==
  /\ T.sha256 \in sel.found_ostree_commits
  /\ sel.found_apps \subseteq TargetUris(T)

Eligible(T) == Len(T.hardwareIds) = 1 /\ T.hardwareIds[1] = DeviceHwId

Returned(T) == sel.found_target.valid /\ sel.found_target.filename = T.filename

\* C7, as claimed: with no target name, the selector returns T if and only
\* if T satisfies the acceptance rule.
C7_ReturnedIffAccepted ==
  SelectorDone => \A T \in SignedTargets : Returned(T) <=> Accepts(T)

\* C7, amended: with no target name, the selector returns T only if T has
\* exactly one hardware id, the device's, and satisfies the acceptance rule;
\* what it returns is one of the signed targets or, when none of them
\* qualifies, Unknown.
C7_ReturnedOnlyIfAccepted ==
  SelectorDone =>
    /\ \A T \in SignedTargets : Returned(T) => Eligible(T) /\ Accepts(T)
    /\ sel.found_target.valid =>
         \E T \in SignedTargets :
           /\ Returned(T)
           /\ sel.found_target.sha256 = T.sha256
           /\ sel.found_target.hardwareIds = T.hardwareIds
           /\ sel.found_target.custom_version = T.custom_version
    /\ (~\E T \in SignedTargets : Eligible(T) /\ Accepts(T)) => sel.found_target = Unknown

\* C7's case: two signed targets qualify and the selector has returned one.
C7_Witness ==
  /\ SelectorDone
  /\ \E T, U \in SignedTargets :
       /\ T.filename # U.filename
       /\ Returned(T)
       /\ Eligible(U) /\ Accepts(U)

\* C8: the apps of the returned target are exactly the apps of the signed
\* target whose uri is on the medium.
C8_ShortlistIsAppsOnMedium ==
  SelectorDone =>
    \A T \in SignedTargets :
      Returned(T) =>
        sel.found_target.apps = SelectSeq(T.apps, LAMBDA a : a.uri \in sel.found_apps)

\* -------------------------------------------------- install (SpecInstall)
InstallDone == inst.pc = "done"
Calls(step) == Cardinality({i \in 1..Len(inst.trace) : inst.trace[i] = step})

\* Metadata update, target selection, download and registration succeeded.
Prepared ==
  inst.meta_ok /\ inst.target.valid /\ inst.download_ok /\ inst.registered

\* C9: install returns NeedDockerRestart exactly when the four steps
\* succeeded and the running commit is the target's, and then install(target)
\* was not invoked; when they succeeded and the commits differ,
\* install(target) was invoked once, NeedReboot is returned exactly when its
\* result code is kNeedCompletion, and any other code raises.
C9_ExitAction ==
  InstallDone =>
    /\ inst.action = "NeedDockerRestart" <=>
         (Prepared /\ inst.current = inst.target.sha256)
    /\ inst.action = "NeedDockerRestart" => Calls("install") = 0
    /\ (Prepared /\ inst.current # inst.target.sha256) =>
         /\ Calls("install") = 1
         /\ inst.action = "NeedReboot" <=> inst.install_res = "kNeedCompletion"
         /\ inst.install_res # "kNeedCompletion" =>
              inst.action = "none" /\ inst.failure = "install_failed"
    /\ inst.action = "NeedReboot" => Prepared /\ Calls("install") = 1

\* C9's case: the target's commit is running already.
C9_Witness ==
  /\ InstallDone /\ inst.action = "NeedDockerRestart"
  /\ inst.current = inst.target.sha256 /\ Calls("install") = 0
  /\ inst.repositories_file # inst.index0

StepOrder == <<"updateImageMeta", "getTarget", "download", "registerApps",
               "getCurrent", "install">>

\* C10: the steps of install run in the order updateImageMeta, getTarget,
\* download, registerApps, comparison of the running commit, install(target),
\* each only after the earlier ones succeeded; a failed metadata update
\* selects no target, an invalid target downloads nothing, a failed download
\* leaves the repositories index alone and installs nothing; a failed call
\* returns no exit action.
C10_StepsShortCircuit ==
  /\ inst.pc # "idle" =>
       /\ Len(inst.trace) <= Len(StepOrder)
       /\ inst.trace = SubSeq(StepOrder, 1, Len(inst.trace))
       /\ Calls("getTarget") > 0 => inst.meta_ok
       /\ Calls("download") > 0 => inst.target.valid
       /\ Calls("registerApps") > 0 => inst.download_ok
       /\ Calls("getCurrent") > 0 => inst.registered
       /\ ~inst.download_ok => inst.repositories_file = inst.index0
  /\ InstallDone =>
       /\ ~inst.meta_ok =>
            inst.trace = <<"updateImageMeta">> /\ inst.failure = "tuf_pull_failed"
       /\ (inst.meta_ok /\ ~inst.target.valid) =>
            /\ inst.trace = <<"updateImageMeta", "getTarget">>
            /\ inst.failure = "target_not_found"
       /\ (inst.meta_ok /\ inst.target.valid /\ ~inst.download_ok) =>
            /\ inst.trace = <<"updateImageMeta", "getTarget", "download">>
            /\ inst.failure = "download_failed"
            /\ inst.repositories_file = inst.index0
       /\ inst.failure # "none" <=> inst.action = "none"

\* C10's case: the download failed, so nothing was registered or installed.
C10_Witness ==
  /\ InstallDone /\ inst.failure = "download_failed"
  /\ inst.target.valid /\ inst.action = "none"
  /\ Calls("registerApps") = 0 /\ Calls("install") = 0

\* ---------------------------------------------------------- run (SpecRun)
RunDone == runc.pc = "done"
RunReturned == RunDone /\ runc.failure = "none"

\* C11: run returns normally only if every step it executed succeeded: the
\* metadata check, the target selection, finalizeInstall, the re-download,
\* the re-install (a failure result code of install(target) raises) and the
\* isTargetActive check.
C11_ReturnsOnlyIfAllSucceeded ==
  RunReturned =>
    /\ runc.meta_ok /\ runc.target.valid
    /\ runc.finalize_ok # "failed"
    /\ runc.download_ok # "failed"
    /\ runc.install_res # "kInstallFailed"
    /\ runc.active = "yes"

\* ----------------------------------------- registerApps (SpecRegister)
RegReturned == reg.pc = "returned"
RegApps == reg.target.apps
PresentApps == {i \in 1..Len(RegApps) : reg.store[RegApps[i].name].exists}
ServicesOf(i) == reg.store[RegApps[i].name].services
\* The apps of the target whose uri parseUri rejects: they name no directory.
UnparsableApps == {i \in 1..Len(RegApps) : ~parseUri(AppUri(RegApps[i].uri), TRUE).ok}

\* What the claim expects for a service's pinned reference host/repo@sha256:ii:
\* the key host/repo, the reference itself, and "sha256:" + the config hex.
ExpectedKey(svc) == Str(SubSeq(svc.image, 1, FindChar(svc.image, "@", 0)))
ExpectedRef(svc) == Str(svc.image)
ExpectedValue(svc) == Str(to_lower_copy(svc.config))

HasEntry(json, key, ref, value) ==
  /\ key \in DOMAIN json
  /\ ref \in DOMAIN json[key]
  /\ json[key][ref] = value

\* C12: after registerApps(T) returns, the index holds
\* Repositories[host/repo][R] = "sha256:" + cc for every service of every app
\* of T whose directory exists; every other entry of the index was there
\* before the call, so absent apps contribute nothing; and a call that fails
\* has met an app whose directory exists or whose uri names no directory.
C12_IndexHoldsPresentApps ==
  /\ RegReturned =>
       /\ \A i \in PresentApps : \A j \in 1..Len(ServicesOf(i)) :
            HasEntry(reg.disk.json, ExpectedKey(ServicesOf(i)[j]),
                     ExpectedRef(ServicesOf(i)[j]), ExpectedValue(ServicesOf(i)[j]))
       /\ \A key \in DOMAIN reg.disk.json : \A ref \in DOMAIN reg.disk.json[key] :
            \/ HasEntry(reg.old.json, key, ref, reg.disk.json[key][ref])
            \/ \E i \in PresentApps : \E j \in 1..Len(ServicesOf(i)) :
                 /\ key = ExpectedKey(ServicesOf(i)[j])
                 /\ ref = ExpectedRef(ServicesOf(i)[j])
  /\ reg.failure = "register_failed" => (PresentApps # {} \/ UnparsableApps # {})

\* C12's case: a target with one app in the store and one app absent has been
\* registered into an index that had entries.
C12_Witness ==
  /\ RegReturned /\ reg.calls = 1
  /\ \E i, k \in 1..Len(RegApps) :
       /\ i \in PresentApps /\ Len(ServicesOf(i)) > 0
       /\ k \notin PresentApps
  /\ reg.index0.exists /\ reg.index0.json # EmptyJson
  /\ reg.disk # reg.index0

\* C13: a second registerApps(T) on an unchanged apps store leaves the index
\* as the first one left it.
C13_SecondCallChangesNothing ==
  (RegReturned /\ reg.calls = 2) =>
    /\ reg.disk = reg.index1
    /\ reg.disk_bytes = FileChunks

\* C13's case: two calls, starting without an index file, have written entries.
C13_Witness ==
  /\ RegReturned /\ reg.calls = 2
  /\ ~reg.index0.exists
  /\ reg.disk.json # EmptyJson

\* C14: at every point of registerApps, a crash included, the index file on
\* disk is whole and holds either the content it had when the call began or
\* the content the call produces.
C14_IndexOldOrNew ==
  reg.pc # "idle" =>
    /\ reg.disk_bytes = FileChunks
    /\ \/ reg.disk = reg.old
       \/ reg.disk = registerApps(reg.target, reg.store, reg.old).file

\* C14's case: the process died while the new content was partly written.
C14_Witness ==
  /\ reg.pc = "crashed"
  /\ reg.tmp.exists /\ reg.tmp.bytes > 0 /\ reg.tmp.bytes < FileChunks
  /\ reg.disk = reg.old
  /\ registerApps(reg.target, reg.store, reg.old).file # reg.old

\* ------------------------------------------ OfflineRegistry (SpecOffline)
\* A name relative to blobs_dir_ that is a direct child of it.
DirectChild(name) ==
  /\ name # <<>>
  /\ FindChar(name, "/", 0) = NPOS
  /\ name # <<".", ".">>

\* C15: the file OfflineRegistry opens for a url is a direct child of
\* <root>/blobs/sha256: no '/' and no '..' of the url reaches its path.
C15_NoPathTraversal ==
  (oreg.pc = "done" /\ oreg.opened) => DirectChild(oreg.file)

\* ----------------------------------------------- HashedDigest (SpecDigest)
HexDigits == {"0", "1", "2", "3", "4", "5", "6", "7", "8", "9",
              "a", "b", "c", "d", "e", "f", "A", "B", "C", "D", "E", "F"}

\* "sha256:" in any case, then exactly 64 hexadecimal digits.
WellFormedDigest(input) ==
  /\ Len(input) = Len(Type) + 64
  /\ to_lower_copy(SubSeq(input, 1, Len(Type))) = Type
  /\ \A i \in Len(Type) + 1..Len(input) : input[i] \in HexDigits

\* C18: construction succeeds exactly for the well-formed inputs; the hex
\* kept is their lowercase form and short is its first 7 characters.
C18_AcceptsExactlyWellFormed ==
  hdig.pc = "done" =>
    /\ hdig.obj.ok <=> WellFormedDigest(hdig.input)
    /\ hdig.obj.ok =>
         /\ hdig.obj.hash_ = to_lower_copy(SubSeq(hdig.input, Len(Type) + 1, Len(hdig.input)))
         /\ hdig.obj.short_hash_ = SubSeq(hdig.obj.hash_, 1, 7)

\* ------------------------------------- registry client, continued (Spec)
\* The write callback's last call did not return the chunk's length.
BadWrite == last_write.n > 0 /\ last_write.ret # last_write.n

\* C16: once the write callback has returned a value other than the
\* chunk's length, the transfer ends without a success status, over the
\* offline registry as over the online transport.
C16_BadWriteFailsTransfer ==
  (op = "blob" /\ pc = "response" /\ BadWrite) => ~isOk(resp)

\* C17: while the DownloadContext lives, written <= expected_size and the
\* sink's write position equals written.
C17_WrittenWithinExpected ==
  (op = "blob" /\ out_stream.open) =>
    /\ written_size <= expected_size
    /\ out_stream.pos = written_size

TokenObtained == \E i \in 1..Len(requests) :
  requests[i].to = "token" /\ requests[i].reply.ok /\ requests[i].reply.token # ""

\* C19: reset() runs once in a call whose first reply is 401 and for which
\* a token was obtained, and never otherwise; once the second transfer is
\* over, written, the hasher and the file hold the second transfer's bytes only.
C19_RetryStartsClean ==
  /\ BlobDone =>
       checks.reset = IF Len(requests) > 0 /\ requests[1].reply.status = 401 /\ TokenObtained
                      THEN 1 ELSE 0
  /\ (op = "blob" /\ attempt = 2 /\ pc # "transfer" /\ file.exists /\ out_stream.good) =>
       /\ Len(file.data) = written_size
       /\ sha256digest(file.data) = hasher

BadCreds(reply) == ~reply.ok \/ reply.Username = "" \/ reply.Secret = ""
BadToken(reply) == ~reply.ok \/ reply.token = ""

\* C20: on a 401 the credentials endpoint is asked first, then the
\* challenge's token url with the basic authorization header, then the
\* registry again with the bearer header; credentials that are refused or
\* empty end the call before the token request, a token that is refused or
\* empty ends it before the retry.
C20_AuthFlowInOrder ==
  op \in {"blob", "manifest"} =>
    \A i \in 1..Len(requests) :
      /\ requests[i].to = "creds" =>
           /\ i = 2 /\ requests[1].to = "registry" /\ requests[1].reply.status = 401
           /\ BadCreds(requests[i].reply) =>
                /\ i = Len(requests) /\ pc = "done"
                /\ result \in {"creds_failed", "creds_invalid"}
      /\ requests[i].to = "token" =>
           /\ i = 3 /\ requests[2].to = "creds" /\ ~BadCreds(requests[2].reply)
           /\ requests[i].url = BearerUri(bearer)
           /\ requests[i].headers =
                <<"authorization: basic "
                    \o toBase64(requests[2].reply.Username \o ":" \o requests[2].reply.Secret)>>
           /\ BadToken(requests[i].reply) =>
                /\ i = Len(requests) /\ pc = "done"
                /\ result \in {"token_failed", "token_invalid"}
      /\ (requests[i].to = "registry" /\ i > 1) =>
           /\ i = 4 /\ requests[3].to = "token" /\ ~BadToken(requests[3].reply)
           /\ requests[i].headers[Len(requests[i].headers)] =
                "authorization: bearer " \o requests[3].reply.token

\* C20's case: the token endpoint answered with an empty token and the call
\* failed without a second registry request.
C20_Witness ==
  /\ pc = "done" /\ result = "token_invalid"
  /\ Len(requests) = 3 /\ requests[3].to = "token" /\ requests[3].reply.token = ""
  /\ Cardinality(RegistryRequests) = 1

\* -------------------------------------- selector, continued (SpecTarget)
Candidates == {T \in SignedTargets : Eligible(T) /\ Accepts(T)}

\* C21: with no target name, the selector returns Unknown only if no signed
\* target for the device satisfies the acceptance rule, also when two
\* targets for the device have the same custom_version.
C21_UnknownOnlyIfNoCandidate ==
  (SelectorDone /\ ~sel.found_target.valid) => Candidates = {}

\* C22: with no target name, a valid target the selector returns has one
\* hardware id, the device's, a commit that is on the medium, and among the
\* uris of the signed target's apps every app uri of the medium; a signed
\* target that lacks an app of the medium is not returned.
C22_ReturnedFitsMedium ==
  SelectorDone =>
    \A T \in SignedTargets :
      /\ Returned(T) =>
           /\ Len(T.hardwareIds) = 1 /\ T.hardwareIds[1] = DeviceHwId
           /\ T.sha256 \in sel.found_ostree_commits
           /\ \A uri \in sel.found_apps : \E i \in 1..Len(T.apps) : T.apps[i].uri = uri
      /\ (\E uri \in sel.found_apps : \A i \in 1..Len(T.apps) : T.apps[i].uri # uri)
           => ~Returned(T)

\* C22's case: a target for the device with a greater version lacks an app
\* of the medium and the selector has returned the next one.
C22_Witness ==
  /\ SelectorDone /\ sel.found_apps # {}
  /\ \E T, U \in SignedTargets :
       /\ Returned(T)
       /\ Eligible(U) /\ U.sha256 \in sel.found_ostree_commits
       /\ strverscmp(U.custom_version, T.custom_version) > 0
       /\ ~(sel.found_apps \subseteq TargetUris(U))

\* C23: no signed target for the device that satisfies the acceptance rule
\* has a custom_version greater than the returned target's.
C23_ReturnedIsGreatest ==
  (SelectorDone /\ sel.found_target.valid) =>
    \A U \in Candidates :
      strverscmp(U.custom_version, sel.found_target.custom_version) <= 0

Named == sel.pc = "done" /\ sel.TargetName # ""

\* C24: with a target name, the selector returns the signed target of that
\* filename as it is signed, whatever its hardware ids, its commit and the
\* medium, and Unknown exactly when no signed target has that filename.
C24_NamedTargetAsSigned ==
  Named =>
    /\ \A T \in SignedTargets :
         T.filename = sel.TargetName => sel.found_target = T
    /\ (sel.found_target = Unknown) <=>
         (\A T \in SignedTargets : T.filename # sel.TargetName)

\* C24's case: the named target is for another device, its commit is not on
\* the medium and the medium holds an app it lacks.
C24_Witness ==
  /\ Named /\ sel.found_target.valid
  /\ sel.found_target.filename = sel.TargetName
  /\ sel.found_target.hardwareIds # <<DeviceHwId>>
  /\ ~Accepts(sel.found_target)
  /\ Len(sel.found_target.apps) > 1

\* ------------------------------------------------ run, continued (SpecRun)
RunSelected == <<"checkImageMetaOffline", "getTarget", "getCurrent">>
IsPrefixOf(s, t) == Len(s) <= Len(t) /\ \A i \in 1..Len(s) : s[i] = t[i]

\* The calls of run after the comparison, by the branch it takes.
RunBranch ==
  IF runc.current # runc.target.sha256
  THEN RunSelected \o <<"finalizeInstall", "isTargetActive">>
  ELSE RunSelected \o <<"download", "install", "isTargetActive">>

\* C25: once the metadata check and the selection succeeded, run calls
\* finalizeInstall and neither download nor install when the booted commit
\* differs from the target's, and download, then install, and no
\* finalizeInstall when they are equal; isTargetActive comes last in both and
\* a normal return has made every call of its branch; the repositories index
\* is never modified.
C25_RunBranches ==
  /\ runc.pc # "idle" => runc.repositories_file = runc.index0
  /\ (runc.pc # "idle" /\ runc.current # "unread") =>
       /\ runc.meta_ok /\ runc.target.valid
       /\ IsPrefixOf(runc.trace, RunBranch)
       /\ RunReturned => runc.trace = RunBranch
       /\ runc.pc = "finalizeInstall" => runc.current # runc.target.sha256
       /\ runc.pc \in {"download", "install"} => runc.current = runc.target.sha256

\* C25's case: the booted commit is the target's and run has returned after
\* download, install and isTargetActive.
C25_Witness ==
  /\ RunReturned /\ runc.current = runc.target.sha256
  /\ runc.download_ok = "ok" /\ runc.install_res # "none"
  /\ runc.finalize_ok = "unset"
  /\ runc.index0.exists /\ runc.index0.json # EmptyJson

\* ------------------------------ registerApps, continued (SpecRegister)
\* The entry (key, ref) is the entry of an image of an app of the target.
TargetImage(key, ref) ==
  \E i \in 1..Len(RegApps) : \E j \in 1..Len(ServicesOf(i)) :
    key = ExpectedKey(ServicesOf(i)[j]) /\ ref = ExpectedRef(ServicesOf(i)[j])

\* Every entry of the index `before` is in the index `after`, with its
\* config digest unless it is the entry of an image of the target.
KeepsEntries(before, after) ==
  /\ before.exists => after.exists
  /\ \A key \in DOMAIN before.json : \A ref \in DOMAIN before.json[key] :
       /\ key \in DOMAIN after.json
       /\ ref \in DOMAIN after.json[key]
       /\ after.json[key][ref] = before.json[key][ref] \/ TargetImage(key, ref)

\* C26: registerApps removes no entry of the index and changes the config
\* digest only of entries of images of the target's apps: at every point the
\* index on disk keeps every repository and reference it had when the call
\* began and when the first call began.
C26_OtherEntriesKept ==
  reg.pc # "idle" =>
    /\ KeepsEntries(reg.old, reg.disk)
    /\ KeepsEntries(reg.index0, reg.disk)

\* C26's case: the call has written new entries next to an entry that is not
\* of an image of the target.
C26_Witness ==
  /\ RegReturned /\ reg.calls = 1
  /\ reg.disk.json # reg.index0.json
  /\ \E key \in DOMAIN reg.index0.json : \E ref \in DOMAIN reg.index0.json[key] :
       /\ ~TargetImage(key, ref)
       /\ HasEntry(reg.disk.json, key, ref, reg.index0.json[key][ref])

\* C27: when the processing of an app or of a service fails, registerApps
\* fails and the index file on disk is whole and is what it was before the
\* call, also when images of earlier apps were processed already.
C27_FailureLeavesIndex ==
  reg.failure = "register_failed" =>
    /\ reg.pc = "done"
    /\ reg.disk = reg.old /\ reg.disk = reg.index0
    /\ reg.disk_bytes = FileChunks
    /\ ~reg.tmp.exists

\* C27's case: the first app of the target was processed and gave the index
\* new entries, then a later app made the call fail.
C27_Witness ==
  /\ reg.failure = "register_failed"
  /\ Len(RegApps) = 2 /\ 1 \in PresentApps
  /\ LET r == RegisterServices(ServicesOf(1), 1, reg.old.json)
     IN  r.ok /\ r.repositories # reg.old.json

====
